---- MODULE Spec2Model ----
(***************************************************************************)
(* The Rankine-cycle exercise notebook (03/exercise_03-empty.ipynb) as a   *)
(* state machine.  The state is the kernel's state: the global names, the  *)
(* TESPy objects they refer to (components, connections, busses,           *)
(* networks), the values the solver left in them, and what the cells       *)
(* printed.  There is one action per code cell, taken in cell order; the   *)
(* parametric-sweep cell is one action per loop iteration.  A cell that    *)
(* raises keeps the effects of the statements before the raise, and the    *)
(* kernel goes on with the next cell.  A run is a run of one notebook:     *)
(* either this one or the supercritical-CO2 Joule cycle notebook, which    *)
(* builds one network, solves it once and prints TESPy's results.          *)
(*                                                                         *)
(* Network.solve is TESPy's and not part of the repository: it is a black  *)
(* box that either raises or leaves one value per result attribute.  Which *)
(* values it leaves is fixed by `world`, chosen in Init, as a function of  *)
(* the boundary conditions in force.                                       *)
(*                                                                         *)
(* Units: power and heat in 100 W; connection attributes (T, p, m) in      *)
(* 1/30 of their unit; component attributes in 1/1000.                     *)
(***************************************************************************)
EXTENDS Integers, Sequences, FiniteSets, TLC

---------------------------------------------------------------------------
(* Representation of the numbers of the notebook *)

\* connection attributes are held in 1/ConnScale: np.linspace(20, 45, 7) and
\* np.linspace(75, 200, 7) step by 25/6 and 125/6, and c11.p is 1.2
ConnScale == 30
\* component attributes (pr, eta_s) are held in 1/CompScale: sgre.pr is 0.946
CompScale == 1000
\* number of points of each np.linspace(..., 7)
NPoints == 7

---------------------------------------------------------------------------
(* Python values *)

Unbound == [k |-> "unbound", n |-> 0, d |-> 1]
Ell == [k |-> "ellipsis", n |-> 0, d |-> 1]
NaN == [k |-> "nan", n |-> 0, d |-> 1]
Inf(sign) == [k |-> "inf", n |-> sign, d |-> 1]
Num(i) == [k |-> "num", n |-> i, d |-> 1]

Abs(i) == IF i < 0 THEN -i ELSE i
Sign(i) == IF i < 0 THEN -1 ELSE IF i > 0 THEN 1 ELSE 0

RECURSIVE Gcd(_, _)
Gcd(a, b) == IF b = 0 THEN a ELSE Gcd(b, a % b)

\* the number n/d (d # 0), in lowest terms with a positive denominator
Frac(n, d) ==
    LET g == Gcd(Abs(n), Abs(d))
        s == IF d < 0 THEN -1 ELSE 1
    IN  [k |-> "num", n |-> s * (n \div g), d |-> s * (d \div g)]

IsNum(x) == x.k = "num"
IsFloat(x) == x.k \in {"num", "nan", "inf"}

\* the result of evaluating an expression: a value, or the exception raised
Ok(v) == [ok |-> TRUE, err |-> "none", v |-> v]
Raise(e) == [ok |-> FALSE, err |-> e, v |-> Unbound]

\* abs(x)
PyAbs(x) ==
    CASE x.k = "num" -> Ok([x EXCEPT !.n = Abs(x.n)])
      [] x.k = "nan" -> Ok(NaN)
      [] x.k = "inf" -> Ok(Inf(1))
      [] x.k = "unbound" -> Raise("NameError")
      [] OTHER -> Raise("TypeError")

\* x / y.  TESPy's values are floats: Python's own float raises on a zero
\* divisor, numpy's float64 returns inf or nan (numeric says which the
\* installed TESPy hands out).
PyDiv(x, y, numeric) ==
    CASE x.k = "unbound" \/ y.k = "unbound" -> Raise("NameError")
      [] ~IsFloat(x) \/ ~IsFloat(y) -> Raise("TypeError")
      [] y.k = "num" /\ y.n = 0 ->
            IF numeric = "float" THEN Raise("ZeroDivisionError")
            ELSE IF x.k = "num" /\ x.n # 0 THEN Ok(Inf(Sign(x.n)))
            ELSE IF x.k = "inf" THEN Ok(Inf(x.n))
            ELSE Ok(NaN)
      [] x.k = "nan" \/ y.k = "nan" -> Ok(NaN)
      [] x.k = "inf" /\ y.k = "inf" -> Ok(NaN)
      [] x.k = "inf" -> Ok(Inf(x.n * Sign(y.n)))
      [] y.k = "inf" -> Ok(Num(0))
      [] OTHER -> Ok(Frac(x.n * y.d, x.d * y.n))

\* x * c for an integer literal c > 0
PyMul(x, c) ==
    CASE x.k = "num" -> Ok(Frac(x.n * c, x.d))
      [] x.k \in {"nan", "inf"} -> Ok(x)
      [] x.k = "unbound" -> Raise("NameError")
      [] OTHER -> Raise("TypeError")

\* round(x, 2): the nearest multiple of 1/100 (ties apart, the float's
\* binary expansion decides them in Python; none arises in the model)
PyRound2(x) ==
    CASE x.k = "num" ->
            LET q == (2 * 100 * Abs(x.n) + x.d) \div (2 * x.d)
            IN  Ok(Frac(Sign(x.n) * q, 100))
      [] x.k \in {"nan", "inf"} -> Ok(x)
      [] x.k = "unbound" -> Raise("NameError")
      [] OTHER -> Raise("TypeError")

---------------------------------------------------------------------------
(* The objects of the notebook *)

\* the component variables, simple cycle first, then the reheat additions
SimpleComps == {"cc", "sg", "mc", "tu", "fp", "cwso", "cwsi"}
ReheatComps == {"sgre", "tuhp", "tulp"}
\* the component variables of the sCO2 notebook
JouleComps ==
    {"water_in", "water_out", "closer", "cp1", "cp2", "rec1", "rec2",
     "cooler", "heater", "turb", "sp1", "m1"}
Comps == SimpleComps \cup ReheatComps \cup JouleComps

\* the TESPy class of each component
CompClass(c) ==
    CASE c \in {"cc", "closer"} -> "CycleCloser"
      [] c \in {"sg", "sgre", "cooler", "heater"} -> "SimpleHeatExchanger"
      [] c = "mc" -> "Condenser"
      [] c \in {"tu", "tuhp", "tulp", "turb"} -> "Turbine"
      [] c = "fp" -> "Pump"
      [] c \in {"cwso", "water_in"} -> "Source"
      [] c \in {"cwsi", "water_out"} -> "Sink"
      [] c \in {"cp1", "cp2"} -> "Compressor"
      [] c \in {"rec1", "rec2"} -> "HeatExchanger"
      [] c = "sp1" -> "Splitter"
      [] c = "m1" -> "Merge"

\* a TESPy data container: whether the user specified it, and its value
DC(v) == [is_set |-> TRUE, val |-> v]
NoDC == [is_set |-> FALSE, val |-> 0]

CompAttrs == {"pr", "pr1", "pr2", "eta_s", "ttd_u", "ttd_l"}
\* a component that has not been constructed yet / a fresh one: no attribute
\* specified, its result (P or Q) not yet computed (nan)
NoComp == [made |-> FALSE, attr |-> [a \in CompAttrs |-> NoDC], val |-> NaN]
NewComp == [made |-> TRUE, attr |-> [a \in CompAttrs |-> NoDC], val |-> NaN]

\* the Connection objects: those of the simple cycle and those of the reheat
\* cycle, which the same global names c0..c12 come to refer to
SimpleConns == {"s1", "s2", "s3", "s4", "s0", "s11", "s12"}
ReheatConns == {"r1", "r2", "r3", "r4", "r5", "r6", "r0", "r11", "r12"}
\* the Connection objects of the sCO2 notebook
JouleConns ==
    {"j0", "j1", "j2", "j3", "j4", "j5", "j6", "j10", "j11", "j12", "j13",
     "j14", "j15"}
Conns == SimpleConns \cup ReheatConns \cup JouleConns
ConnVars == {"c0", "c1", "c2", "c3", "c4", "c5", "c6", "c11", "c12"}
JouleConnVars ==
    {"c0", "c1", "c2", "c3", "c4", "c5", "c6", "c10", "c11", "c12", "c13",
     "c14", "c15"}

NoConn ==
    [made |-> FALSE, source |-> "", source_id |-> "", target |-> "",
     target_id |-> "", label |-> "", T |-> NoDC, p |-> NoDC, m |-> NoDC,
     fluid |-> FALSE]
\* Connection(source, source_id, target, target_id, label=label)
Connection(source, source_id, target, target_id, label) ==
    [made |-> TRUE, source |-> source, source_id |-> source_id,
     target |-> target, target_id |-> target_id, label |-> label,
     T |-> NoDC, p |-> NoDC, m |-> NoDC, fluid |-> FALSE]

\* the Bus objects: powergen of the simple cycle, and of the reheat cycle the
\* powergen that replaces it and heat_input
\* and, in the sCO2 notebook, power and heat_input_bus
Busses ==
    {"powergen_simple", "powergen_reheat", "heat_input", "power",
     "heat_input_bus"}
BusVars == {"powergen", "heat_input", "power", "heat_input_bus"}
NoBus == [made |-> FALSE, comps |-> {}, P |-> NaN]
\* one entry of Bus.add_comps: char is char_n / char_d
BusComp(c, char_n, char_d, base) ==
    [comp |-> c, char_n |-> char_n, char_d |-> char_d, base |-> base]

Nets == {"my_plant", "rankine", "jouleCycle"}
NoNet == [made |-> FALSE, conns |-> {}, busses |-> {}, iterinfo |-> TRUE]

\* the scalar globals
Scalars ==
    {"T_tu_in", "p_tu_in", "mf", "p_tu_out", "T_coo_in", "T_coo_out",
     "W_net", "Q_in", "thermal_efficiency"}

SweepKeys == <<"T_livesteam", "T_cooling", "p_livesteam">>

---------------------------------------------------------------------------
(* The state *)

VARIABLES
    pc,         \* the next step to run (a code cell, or a step of the sweep cell)
    i,          \* the sweep cell's loop index: points of the current loop done
    world,      \* what the installed TESPy does: fixed for the whole run
    errors,     \* per code cell: the exception that ended it, or "none"
    bound,      \* the global names bound so far
    scal,       \* the scalar globals' values
    ref,        \* the object each connection / bus variable refers to
    comp,       \* the component objects
    conn,       \* the connection objects
    bus,        \* the bus objects
    net,        \* the network objects
    tables,     \* the DataFrames the result cells build and print
    printed,    \* per code cell: the efficiencies it printed, in order
    eta,        \* eta[key]: the sweep's efficiencies
    power,      \* power[key]: the sweep's powers
    solves      \* history: one record per solve() call, in call order

vars ==
    <<pc, i, world, errors, bound, scal, ref, comp, conn, bus, net, tables,
      printed, eta, power, solves>>

\* the code cells, in notebook order (start line of each in the .ipynb)
CodeCells ==
    <<"imports", "import_components", "create_plant", "import_connection",
      "conns_simple", "conns_cooling", "params", "comp_attrs", "conn_attrs",
      "bus_simple", "solve_simple", "tables_simple", "eff_1_2", "resolve_1_4",
      "eff_1_4", "import_plt", "load_steam", "plot_ts", "create_rankine",
      "conns_reheat", "comp_attrs_reheat", "bc_reheat", "bus_reheat",
      "solve_reheat", "tables_reheat", "eff_2_2", "eff_2_3_wet",
      "eff_2_3_dry", "load_steam_reheat", "plot_ts_reheat", "sweep">>

\* the steps of the last cell, the parametric sweep
SweepSteps ==
    <<"sweep_setup", "sweep_T_livesteam", "sweep_reset_T", "sweep_T_cooling",
      "sweep_reset_cooling", "sweep_p_livesteam", "sweep_reset_p",
      "sweep_plot">>

Steps == SubSeq(CodeCells, 1, Len(CodeCells) - 1) \o SweepSteps \o <<"done">>

\* the code cells of the sCO2 notebook, in notebook order
JouleCells ==
    <<"j_imports", "j_network", "j_components", "j_connections", "j_busses",
      "j_params", "j_solve">>
JouleSteps == JouleCells \o <<"done">>

RECURSIVE IndexOf(_, _, _)
IndexOf(seq, x, from) ==
    IF seq[from] = x THEN from ELSE IndexOf(seq, x, from + 1)

\* the step after step s when s ends normally
After(s) ==
    IF \E j \in 1..Len(JouleCells) : JouleCells[j] = s
    THEN JouleSteps[IndexOf(JouleSteps, s, 1) + 1]
    ELSE Steps[IndexOf(Steps, s, 1) + 1]

CellNames ==
    {CodeCells[j] : j \in 1..Len(CodeCells)}
    \cup {JouleCells[j] : j \in 1..Len(JouleCells)}

TableNames ==
    {"df_turbine", "df_condenser", "df_pump", "df_generator",
     "df_heat_exchanger", "df_connections", "df_buses",
     "df_buses_heat_input", "df_buses_electric_output",
     "results_heat_input", "results_power", "results_connections"}

---------------------------------------------------------------------------
(* TESPy's solver, a black box *)

\* how far the solver's results spread over the boundary conditions
Spread == 7

WorldNames == {"worked", "varying", "idle", "cold", "dead", "consuming"}
Numerics == {"float", "float64"}

RECURSIVE SumOver(_, _)
\* the sum of f[x] over the finite set S
SumOver(S, f) ==
    IF S = {} THEN 0
    ELSE LET x == CHOOSE y \in S : TRUE
         IN  f[x] + SumOver(S \ {x}, f)

Specified(dc) == IF dc.is_set THEN dc.val ELSE 0

\* the components a network's connections join, cn being the connections
NetComps(n, cn) ==
    {cn[c].source : c \in net[n].conns} \cup
    {cn[c].target : c \in net[n].conns}

\* the boundary conditions in force for network n, as one number: the sum of
\* every specified connection and component attribute (cn the connections,
\* cp the components, as the call finds them)
Digest(n, cn, cp) ==
    SumOver(net[n].conns,
            [c \in Conns |->
                Specified(cn[c].T) + Specified(cn[c].p) + Specified(cn[c].m)])
    + SumOver(NetComps(n, cn),
              [c \in Comps |->
                  SumOver(CompAttrs, [a \in CompAttrs |->
                                         Specified(cp[c].attr[a])])])

\* an outcome that reports the cooler's duty as the heat removed, unsigned
JouleOutcome_CoolerUnsigned ==
    [P |-> -25000, H |-> 105100,
     val |-> [c \in Comps |->
                CASE c = "turb" -> -62950
                  [] c = "cp1" -> 24730
                  [] c = "cp2" -> 10150
                  [] c = "heater" -> 105100
                  [] c = "cooler" -> 77000
                  [] c = "rec1" -> -38500
                  [] c = "rec2" -> -36900
                  [] OTHER -> 0]]

\* The values solve() leaves, given the world and the boundary conditions:
\* P the power bus total, H the heat-input bus total, and one value (P or Q)
\* per component.  "worked" returns the figures of the notebook's tables;
\* the other worlds spread over the boundary conditions: "idle" has a zero
\* power bus, "cold" passes through a zero heat duty, "dead" through a zero
\* heat duty with a zero power bus, and "consuming" has a positive power bus.
\* The sCO2 notebook fixes its boundary conditions and records the results
\* of its solve: those are what a returning solve of jouleCycle leaves.
JouleOutcome ==
    [P |-> -25000, H |-> 105100,
     val |-> [c \in Comps |->
                CASE c = "turb" -> -62950
                  [] c = "cp1" -> 24730
                  [] c = "cp2" -> 10150
                  [] c = "heater" -> 105100
                  [] c = "cooler" -> -77000
                  [] c = "rec1" -> -38500
                  [] c = "rec2" -> -36900
                  [] OTHER -> 0]]

RankineOutcome(w, n, digest) ==
    LET k == digest % Spread
        P == CASE w = "worked" ->
                    IF n = "my_plant" THEN -466200 ELSE -554500
               [] w = "varying" -> -(300 + 20 * k)
               [] w = "idle" -> 0
               [] w = "cold" -> -(300 + 20 * k)
               [] w = "dead" -> -(20 * k)
               [] w = "consuming" -> 100 + 10 * k
        Qsg == CASE w = "worked" ->
                    IF n = "my_plant" THEN 1000000 ELSE 1558000
               [] w \in {"cold", "dead"} -> 50 * k
               [] OTHER -> 1000 + 50 * k
        Qsgre == CASE w = "worked" -> 244200
               [] w \in {"cold", "dead"} -> 10 * k
               [] OTHER -> 200 + 10 * k
        H == IF w = "worked" THEN 1803000 ELSE Qsg + Qsgre
        Pfp == IF w = "worked"
               THEN (IF n = "my_plant" THEN 6256 ELSE 6950) ELSE 5 + k
        Ptu == IF w = "worked" THEN -507800 ELSE P - (5 + k)
        Ptuhp == IF w = "worked" THEN -149520 ELSE (P - (5 + k)) \div 4
        Ptulp == IF w = "worked" THEN -453920 ELSE Ptu - Ptuhp
    IN  [P |-> P, H |-> H,
         val |-> [c \in Comps |->
                    CASE c = "sg" -> Qsg
                      [] c = "sgre" -> Qsgre
                      [] c = "fp" -> Pfp
                      [] c = "tu" -> Ptu
                      [] c = "tuhp" -> Ptuhp
                      [] c = "tulp" -> Ptulp
                      [] c = "mc" -> -(Qsg + (IF n = "rankine" THEN Qsgre ELSE 0)
                                       + Ptu + Pfp)
                      [] OTHER -> 0]]

Outcome(w, n, digest) ==
    IF n = "jouleCycle" THEN JouleOutcome ELSE RankineOutcome(w, n, digest)

\* network.solve(mode='design') when it returns: every component of the
\* network and every bus of the network holds the solver's value
SolvedComp(n, cn, cp) ==
    LET out == Outcome(world.name, n, Digest(n, cn, cp))
    IN  [c \in Comps |->
            IF c \in NetComps(n, cn)
               /\ CompClass(c) \notin {"CycleCloser", "Source", "Sink",
                                        "Splitter", "Merge"}
            THEN [cp[c] EXCEPT !.val = Num(out.val[c])]
            ELSE cp[c]]

SolvedBus(n, cn, cp) ==
    LET out == Outcome(world.name, n, Digest(n, cn, cp))
    IN  [b \in Busses |->
            IF b \in net[n].busses
            THEN [bus[b] EXCEPT
                    !.P = Num(IF b \in {"heat_input", "heat_input_bus"}
                              THEN out.H ELSE out.P)]
            ELSE bus[b]]

\* the parameters specified for network n: the connection attributes and
\* the component attributes that are set, and how many they are
SpecifiedParams(n, cn, cp) ==
    {<<c, a>> \in net[n].conns \X {"T", "p", "m"} :
        CASE a = "T" -> cn[c].T.is_set
          [] a = "p" -> cn[c].p.is_set
          [] a = "m" -> cn[c].m.is_set}
    \cup {<<c, a>> \in NetComps(n, cn) \X CompAttrs : cp[c].attr[a].is_set}

\* the boundary conditions of network n, as solve() finds them
ConnSnapshot(n, cn) ==
    [c \in net[n].conns |-> [T |-> cn[c].T, p |-> cn[c].p, m |-> cn[c].m]]
AttrSnapshot(n, cn, cp) == [c \in NetComps(n, cn) |-> cp[c].attr]

\* the record of one solve() call: which step called, on which network, under
\* which boundary conditions, whether it returned, and what it left
SolveRecord(step, n, ok, cn, cp) ==
    LET out == Outcome(world.name, n, Digest(n, cn, cp))
    IN  [step |-> step, net |-> n, ok |-> ok, digest |-> Digest(n, cn, cp),
         conn |-> ConnSnapshot(n, cn),
         attr |-> AttrSnapshot(n, cn, cp),
         nspec |-> Cardinality(SpecifiedParams(n, cn, cp)),
         ttd_u |-> cp["mc"].attr["ttd_u"],
         P |-> IF ok THEN out.P ELSE 0,
         H |-> IF ok THEN out.H ELSE 0,
         Qsg |-> IF ok THEN out.val["sg"] ELSE 0,
         Qsgre |-> IF ok THEN out.val["sgre"] ELSE 0]

\* network n's solve(mode='design'), called by `step` with the connections cn
\* and the components cp: it returns (ok), leaving the solver's values, or
\* raises, leaving the objects as it found them
Solve(step, n, ok, cn, cp) ==
    /\ solves' = Append(solves, SolveRecord(step, n, ok, cn, cp))
    /\ comp' = IF ok THEN SolvedComp(n, cn, cp) ELSE cp
    /\ bus' = IF ok THEN SolvedBus(n, cn, cp) ELSE bus

---------------------------------------------------------------------------
(* The state after the kernel starts *)

Init ==
    /\ pc \in {"imports", "j_imports"}
    /\ i = 0
    /\ world \in [name : WorldNames, numeric : Numerics]
    /\ errors = [c \in CellNames |-> "none"]
    /\ bound = {}
    /\ scal = [s \in Scalars |-> Unbound]
    /\ ref = [v \in ConnVars \cup JouleConnVars \cup BusVars |-> "unbound"]
    /\ comp = [c \in Comps |-> NoComp]
    /\ conn = [c \in Conns |-> NoConn]
    /\ bus = [b \in Busses |-> NoBus]
    /\ net = [n \in Nets |-> NoNet]
    /\ tables = [t \in TableNames |-> <<>>]
    /\ printed = [c \in CellNames |-> <<>>]
    /\ eta = [key \in {"T_livesteam", "T_cooling", "p_livesteam"} |-> <<>>]
    /\ power = [key \in {"T_livesteam", "T_cooling", "p_livesteam"} |-> <<>>]
    /\ solves = <<>>

---------------------------------------------------------------------------
(* The cells of the simple cycle *)

\* a cell that ran to its end / that raised e
Ran(cell) == pc' = After(cell) /\ UNCHANGED errors
Raised(cell, e) == pc' = After(cell) /\ errors' = [errors EXCEPT ![cell] = e]

\* %pip install tespy; from tespy.networks import Network; import pandas as pd
Imports ==
    /\ pc = "imports"
    /\ bound' = bound \cup {"Network", "pd"}
    /\ Ran("imports")
    /\ UNCHANGED <<i, world, scal, ref, comp, conn, bus, net, tables, printed,
                   eta, power, solves>>

\* from tespy.components import (CycleCloser, Pump, Condenser, Turbine, ...)
ImportComponents ==
    /\ pc = "import_components"
    /\ bound' = bound \cup {"CycleCloser", "Pump", "Condenser", "Turbine",
                            "SimpleHeatExchanger", "Source", "Sink"}
    /\ Ran("import_components")
    /\ UNCHANGED <<i, world, scal, ref, comp, conn, bus, net, tables, printed,
                   eta, power, solves>>

\* a cell that leaves the turbine out
CreatePlant_NoTurbine ==
    /\ pc = "create_plant"
    /\ net' = [net EXCEPT !["my_plant"] = [NoNet EXCEPT !.made = TRUE]]
    /\ comp' = [c \in Comps |->
                  IF c \in SimpleComps \ {"tu"} THEN NewComp ELSE comp[c]]
    /\ bound' = bound \cup {"my_plant"} \cup (SimpleComps \ {"tu"})
    /\ Ran("create_plant")
    /\ UNCHANGED <<i, world, scal, ref, conn, bus, tables, printed, eta, power,
                   solves>>

\* my_plant = Network(); cc = CycleCloser(...); sg = ...; mc; tu; fp; cwso; cwsi
CreatePlant ==
    /\ pc = "create_plant"
    /\ net' = [net EXCEPT !["my_plant"] = [NoNet EXCEPT !.made = TRUE]]
    /\ comp' = [c \in Comps |-> IF c \in SimpleComps THEN NewComp ELSE comp[c]]
    /\ bound' = bound \cup {"my_plant"} \cup SimpleComps
    /\ Ran("create_plant")
    /\ UNCHANGED <<i, world, scal, ref, conn, bus, tables, printed, eta, power,
                   solves>>

\* from tespy.connections import Connection
ImportConnection ==
    /\ pc = "import_connection"
    /\ bound' = bound \cup {"Connection"}
    /\ Ran("import_connection")
    /\ UNCHANGED <<i, world, scal, ref, comp, conn, bus, net, tables, printed,
                   eta, power, solves>>

\* a cell that leaves c0 out of add_conns
ConnsSimple_OpenCycle ==
    /\ pc = "conns_simple"
    /\ conn' = [conn EXCEPT
          !["s1"] = Connection("cc", "out1", "tu", "in1", "1"),
          !["s2"] = Connection("tu", "out1", "mc", "in1", "2"),
          !["s3"] = Connection("mc", "out1", "fp", "in1", "3"),
          !["s4"] = Connection("fp", "out1", "sg", "in1", "4"),
          !["s0"] = Connection("sg", "out1", "cc", "in1", "0")]
    /\ ref' = [ref EXCEPT !["c1"] = "s1", !["c2"] = "s2", !["c3"] = "s3",
                          !["c4"] = "s4", !["c0"] = "s0"]
    /\ net' = [net EXCEPT !["my_plant"].conns =
                  @ \cup {"s1", "s2", "s3", "s4"}]
    /\ bound' = bound \cup {"c1", "c2", "c3", "c4", "c0"}
    /\ Ran("conns_simple")
    /\ UNCHANGED <<i, world, scal, comp, bus, tables, printed, eta, power,
                   solves>>

\* c1 = Connection(cc, 'out1', tu, 'in1', label='1') ... c0;
\* my_plant.add_conns(c1, c2, c3, c4, c0)
ConnsSimple ==
    /\ pc = "conns_simple"
    /\ conn' = [conn EXCEPT
          !["s1"] = Connection("cc", "out1", "tu", "in1", "1"),
          !["s2"] = Connection("tu", "out1", "mc", "in1", "2"),
          !["s3"] = Connection("mc", "out1", "fp", "in1", "3"),
          !["s4"] = Connection("fp", "out1", "sg", "in1", "4"),
          !["s0"] = Connection("sg", "out1", "cc", "in1", "0")]
    /\ ref' = [ref EXCEPT !["c1"] = "s1", !["c2"] = "s2", !["c3"] = "s3",
                          !["c4"] = "s4", !["c0"] = "s0"]
    /\ net' = [net EXCEPT !["my_plant"].conns =
                  @ \cup {"s1", "s2", "s3", "s4", "s0"}]
    /\ bound' = bound \cup {"c1", "c2", "c3", "c4", "c0"}
    /\ Ran("conns_simple")
    /\ UNCHANGED <<i, world, scal, comp, bus, tables, printed, eta, power,
                   solves>>

\* a cooling-water cell that takes c12 from the condenser's steam-side outlet
ConnsCooling_SamePort ==
    /\ pc = "conns_cooling"
    /\ conn' = [conn EXCEPT
          !["s11"] = Connection("cwso", "out1", "mc", "in2", "11"),
          !["s12"] = Connection("mc", "out1", "cwsi", "in1", "12")]
    /\ ref' = [ref EXCEPT !["c11"] = "s11", !["c12"] = "s12"]
    /\ net' = [net EXCEPT !["my_plant"].conns = @ \cup {"s11", "s12"}]
    /\ bound' = bound \cup {"c11", "c12"}
    /\ Ran("conns_cooling")
    /\ UNCHANGED <<i, world, scal, comp, bus, tables, printed, eta, power,
                   solves>>

\* c11 = Connection(cwso, 'out1', mc, 'in2', label='11'); c12 = ...;
\* my_plant.add_conns(c11, c12)
ConnsCooling ==
    /\ pc = "conns_cooling"
    /\ conn' = [conn EXCEPT
          !["s11"] = Connection("cwso", "out1", "mc", "in2", "11"),
          !["s12"] = Connection("mc", "out2", "cwsi", "in1", "12")]
    /\ ref' = [ref EXCEPT !["c11"] = "s11", !["c12"] = "s12"]
    /\ net' = [net EXCEPT !["my_plant"].conns = @ \cup {"s11", "s12"}]
    /\ bound' = bound \cup {"c11", "c12"}
    /\ Ran("conns_cooling")
    /\ UNCHANGED <<i, world, scal, comp, bus, tables, printed, eta, power,
                   solves>>

\* T_tu_in = 10; p_tu_in = 10; mf = 10; p_tu_out = 0; T_coo_in = 10;
\* T_coo_out = 10
Params ==
    /\ pc = "params"
    /\ scal' = [scal EXCEPT
          !["T_tu_in"] = Num(10 * ConnScale),
          !["p_tu_in"] = Num(10 * ConnScale),
          !["mf"] = Num(10 * ConnScale),
          !["p_tu_out"] = Num(0),
          !["T_coo_in"] = Num(10 * ConnScale),
          !["T_coo_out"] = Num(10 * ConnScale)]
    /\ bound' = bound \cup {"T_tu_in", "p_tu_in", "mf", "p_tu_out",
                            "T_coo_in", "T_coo_out"}
    /\ Ran("params")
    /\ UNCHANGED <<i, world, ref, comp, conn, bus, net, tables, printed, eta,
                   power, solves>>

\* mc.set_attr(pr1=1, pr2=1); sg.set_attr(pr=1); tu.set_attr(eta_s=0.80);
\* fp.set_attr(eta_s=0.90)
CompAttrsSimple ==
    /\ pc = "comp_attrs"
    /\ comp' = [comp EXCEPT
          !["mc"].attr["pr1"] = DC(CompScale),
          !["mc"].attr["pr2"] = DC(CompScale),
          !["sg"].attr["pr"] = DC(CompScale),
          !["tu"].attr["eta_s"] = DC((80 * CompScale) \div 100),
          !["fp"].attr["eta_s"] = DC((90 * CompScale) \div 100)]
    /\ Ran("comp_attrs")
    /\ UNCHANGED <<i, world, bound, scal, ref, conn, bus, net, tables, printed,
                   eta, power, solves>>

\* c11.set_attr(T=T_coo_in, p=1.2, fluid={'water': 1});
\* c12.set_attr(T=T_coo_out);
\* c1.set_attr(T=T_tu_in, p=p_tu_in, m=mf, fluid={'water': 1});
\* c2.set_attr(p=p_tu_out)
ConnAttrsSimple ==
    /\ pc = "conn_attrs"
    /\ conn' = [conn EXCEPT
          ![ref["c11"]].T = DC(scal["T_coo_in"].n),
          ![ref["c11"]].p = DC((12 * ConnScale) \div 10),
          ![ref["c11"]].fluid = TRUE,
          ![ref["c12"]].T = DC(scal["T_coo_out"].n),
          ![ref["c1"]].T = DC(scal["T_tu_in"].n),
          ![ref["c1"]].p = DC(scal["p_tu_in"].n),
          ![ref["c1"]].m = DC(scal["mf"].n),
          ![ref["c1"]].fluid = TRUE,
          ![ref["c2"]].p = DC(scal["p_tu_out"].n)]
    /\ Ran("conn_attrs")
    /\ UNCHANGED <<i, world, bound, scal, ref, comp, bus, net, tables, printed,
                   eta, power, solves>>

\* from tespy.connections import Bus; powergen = Bus(...);
\* powergen.add_comps({tu, 0.98 * 0.95, "component"}, {fp, 0.95, "bus"});
\* my_plant.add_busses(powergen)
BusSimple ==
    /\ pc = "bus_simple"
    /\ bus' = [bus EXCEPT !["powergen_simple"] =
                  [made |-> TRUE,
                   comps |-> {BusComp("tu", 98 * 95, 100 * 100, "component"),
                              BusComp("fp", 95, 100, "bus")},
                   P |-> NaN]]
    /\ ref' = [ref EXCEPT !["powergen"] = "powergen_simple"]
    /\ net' = [net EXCEPT !["my_plant"].busses = @ \cup {"powergen_simple"}]
    /\ bound' = bound \cup {"Bus", "powergen"}
    /\ Ran("bus_simple")
    /\ UNCHANGED <<i, world, scal, comp, conn, tables, printed, eta, power,
                   solves>>

\* my_plant.set_attr(iterinfo=True); my_plant.solve(mode='design')
SolveSimple ==
    /\ pc = "solve_simple"
    /\ net' = [net EXCEPT !["my_plant"].iterinfo = TRUE]
    /\ \E ok \in BOOLEAN :
          /\ Solve("solve_simple", "my_plant", ok, conn, comp)
          /\ IF ok THEN Ran("solve_simple")
             ELSE Raised("solve_simple", "TESPyError")
    /\ UNCHANGED <<i, world, bound, scal, ref, conn, tables, printed, eta,
                   power>>

\* one row of a component table (the component's name and its P or Q), of
\* the connection table (the label and the object the row reads), and of a
\* bus table
CompRow(name, c) == [name |-> name, val |-> comp[c].val]
ConnRow(label, c) == [label |-> label, obj |-> ref[c]]
BusRow(name, component_value, bus_value, efficiency) ==
    [name |-> name, component_value |-> component_value,
     bus_value |-> bus_value, efficiency |-> efficiency]

\* a bus table whose turbine row shows the bus total
DfBuses_TurbineRowTotal ==
    <<BusRow("steam turbine", comp["tu"].val, Num(-466200), Frac(9310, 10000)),
      BusRow("feed pump", comp["fp"].val, Num(6585), Frac(9500, 10000)),
      BusRow("total", Num(-501600), Num(-466200), NaN)>>

\* df_buses = pd.DataFrame([...]) of the simple cycle
DfBuses ==
    <<BusRow("steam turbine", comp["tu"].val, Num(-472800), Frac(9310, 10000)),
      BusRow("feed pump", comp["fp"].val, Num(6585), Frac(9500, 10000)),
      BusRow("total", Num(-501600), Num(-466200), NaN)>>

\* df_turbine ... df_buses = pd.DataFrame(...); print(...)
TablesSimple ==
    /\ pc = "tables_simple"
    /\ tables' = [tables EXCEPT
          !["df_turbine"] = <<CompRow("steam turbine", "tu")>>,
          !["df_condenser"] = <<CompRow("main condenser", "mc")>>,
          !["df_pump"] = <<CompRow("feed pump", "fp")>>,
          !["df_generator"] = <<CompRow("steam generator", "sg")>>,
          !["df_connections"] =
              <<ConnRow("1", "c1"), ConnRow("2", "c2"), ConnRow("3", "c3"),
                ConnRow("4", "c4"), ConnRow("0", "c0"), ConnRow("11", "c11"),
                ConnRow("12", "c12")>>,
          !["df_buses"] = DfBuses]
    /\ bound' = bound \cup {"df_turbine", "df_condenser", "df_pump",
                            "df_generator", "df_connections", "df_buses"}
    /\ Ran("tables_simple")
    /\ UNCHANGED <<i, world, scal, ref, comp, conn, bus, net, printed, eta,
                   power, solves>>

\* a net work that keeps the sign of the bus total
WNet_Signed == Ok(bus[ref["powergen"]].P)
\* W_net = abs(powergen.P.val)
WNet == PyAbs(bus[ref["powergen"]].P)
\* Q_in = sg.Q.val
QIn == Ok(comp["sg"].val)
\* thermal_efficiency = ...
ThermalEfficiency == Ok(Ell)
\* round(thermal_efficiency * 100, 2), the value the f-string prints
PrintedEfficiency(te) ==
    LET m == PyMul(te, 100) IN IF m.ok THEN PyRound2(m.v) ELSE m

\* An efficiency cell: W_net = W; Q_in = Q; thermal_efficiency = te;
\* print(f"...: {round(thermal_efficiency * 100, 2)} %"), the first of the
\* four that raises ending the cell
EfficiencyCell(cell, W, Q, te) ==
    LET pr == PrintedEfficiency(te.v)
        err == CASE ~W.ok -> W.err
                 [] ~Q.ok -> Q.err
                 [] ~te.ok -> te.err
                 [] ~pr.ok -> pr.err
                 [] OTHER -> "none"
    IN  /\ scal' = [scal EXCEPT
              !["W_net"] = IF W.ok THEN W.v ELSE @,
              !["Q_in"] = IF W.ok /\ Q.ok THEN Q.v ELSE @,
              !["thermal_efficiency"] =
                  IF W.ok /\ Q.ok /\ te.ok THEN te.v ELSE @]
        /\ bound' = bound
              \cup (IF W.ok THEN {"W_net"} ELSE {})
              \cup (IF W.ok /\ Q.ok THEN {"Q_in"} ELSE {})
              \cup (IF W.ok /\ Q.ok /\ te.ok THEN {"thermal_efficiency"} ELSE {})
        /\ printed' = [printed EXCEPT ![cell] =
              IF err = "none" THEN Append(@, pr.v) ELSE @]
        /\ IF err = "none" THEN Ran(cell) ELSE Raised(cell, err)

\* 1.2: the efficiency of the simple cycle
Eff_1_2 ==
    /\ pc = "eff_1_2"
    /\ EfficiencyCell("eff_1_2", WNet, QIn, ThermalEfficiency)
    /\ UNCHANGED <<i, world, ref, comp, conn, bus, net, tables, eta, power,
                   solves>>

\* 1.4: T_tu_in = 10; c1.set_attr(T=T_tu_in); my_plant.solve(mode='design')
Resolve_1_4 ==
    /\ pc = "resolve_1_4"
    /\ scal' = [scal EXCEPT !["T_tu_in"] = Num(10 * ConnScale)]
    /\ conn' = [conn EXCEPT ![ref["c1"]].T = DC(10 * ConnScale)]
    /\ \E ok \in BOOLEAN :
          /\ Solve("resolve_1_4", "my_plant", ok, conn', comp)
          /\ IF ok THEN Ran("resolve_1_4")
             ELSE Raised("resolve_1_4", "TESPyError")
    /\ UNCHANGED <<i, world, bound, ref, net, tables, printed, eta, power>>

\* 1.4: W_net = ...; Q_in = ...; thermal_efficiency = ...; print(...)
Eff_1_4 ==
    /\ pc = "eff_1_4"
    /\ EfficiencyCell("eff_1_4", Ok(Ell), Ok(Ell), Ok(Ell))
    /\ UNCHANGED <<i, world, ref, comp, conn, bus, net, tables, eta, power,
                   solves>>

\* %matplotlib inline; import matplotlib.pyplot as plt
ImportPlt ==
    /\ pc = "import_plt"
    /\ bound' = bound \cup {"plt"}
    /\ Ran("import_plt")
    /\ UNCHANGED <<i, world, scal, ref, comp, conn, bus, net, tables, printed,
                   eta, power, solves>>

\* file_path = 'Data/Steamtables.xlsx'; df = pd.read_excel(...);
\* temperature = ...; sv = ...; sl = ...
LoadSteam ==
    /\ pc = "load_steam"
    /\ bound' = bound \cup {"file_path", "df", "temperature", "sv", "sl"}
    /\ Ran("load_steam")
    /\ UNCHANGED <<i, world, scal, ref, comp, conn, bus, net, tables, printed,
                   eta, power, solves>>

\* fig, ax = plt.subplots(...); ax.plot(...); ...; fig.show()
PlotTs ==
    /\ pc = "plot_ts"
    /\ bound' = bound \cup {"fig", "ax"}
    /\ Ran("plot_ts")
    /\ UNCHANGED <<i, world, scal, ref, comp, conn, bus, net, tables, printed,
                   eta, power, solves>>

---------------------------------------------------------------------------
(* The cells of the cycle with reheat *)

\* rankine = Network(); rankine.set_attr(T_unit='C', p_unit='bar', ...)
CreateRankine ==
    /\ pc = "create_rankine"
    /\ net' = [net EXCEPT !["rankine"] = [NoNet EXCEPT !.made = TRUE]]
    /\ bound' = bound \cup {"rankine"}
    /\ Ran("create_rankine")
    /\ UNCHANGED <<i, world, scal, ref, comp, conn, bus, tables, printed, eta,
                   power, solves>>

\* sgre = SimpleHeatExchanger(...); tuhp = Turbine(...); tulp = Turbine(...);
\* c1 = Connection(cc, 'out1', tuhp, 'in1', label='1') ... c12;
\* rankine.add_conns(c1, c2, c3, c4, c5, c6, c0, c11, c12)
ConnsReheat ==
    /\ pc = "conns_reheat"
    /\ comp' = [c \in Comps |-> IF c \in ReheatComps THEN NewComp ELSE comp[c]]
    /\ conn' = [conn EXCEPT
          !["r1"] = Connection("cc", "out1", "tuhp", "in1", "1"),
          !["r2"] = Connection("tuhp", "out1", "sgre", "in1", "2"),
          !["r3"] = Connection("sgre", "out1", "tulp", "in1", "3"),
          !["r4"] = Connection("tulp", "out1", "mc", "in1", "4"),
          !["r5"] = Connection("mc", "out1", "fp", "in1", "5"),
          !["r6"] = Connection("fp", "out1", "sg", "in1", "6"),
          !["r0"] = Connection("sg", "out1", "cc", "in1", "0"),
          !["r11"] = Connection("cwso", "out1", "mc", "in2", "11"),
          !["r12"] = Connection("mc", "out2", "cwsi", "in1", "12")]
    /\ ref' = [ref EXCEPT !["c1"] = "r1", !["c2"] = "r2", !["c3"] = "r3",
                          !["c4"] = "r4", !["c5"] = "r5", !["c6"] = "r6",
                          !["c0"] = "r0", !["c11"] = "r11", !["c12"] = "r12"]
    /\ net' = [net EXCEPT !["rankine"].conns = @ \cup ReheatConns]
    /\ bound' = bound \cup ReheatComps \cup ConnVars
    /\ Ran("conns_reheat")
    /\ UNCHANGED <<i, world, scal, bus, tables, printed, eta, power, solves>>

\* a reheat configuration that gives the shared condenser a pressure loss
SetCompAttrsReheat_LossyCondenser(cp) ==
    [cp EXCEPT
        !["mc"].attr["pr1"] = DC((980 * CompScale) \div 1000),
        !["mc"].attr["pr2"] = DC(CompScale),
        !["sg"].attr["pr"] = DC((900 * CompScale) \div 1000),
        !["sgre"].attr["pr"] = DC((946 * CompScale) \div 1000),
        !["tuhp"].attr["eta_s"] = DC((80 * CompScale) \div 100),
        !["tulp"].attr["eta_s"] = DC((80 * CompScale) \div 100),
        !["fp"].attr["eta_s"] = DC((90 * CompScale) \div 100)]

\* mc.set_attr(pr1=1, pr2=1); sg.set_attr(pr=0.9); sgre.set_attr(pr=0.946);
\* tuhp.set_attr(eta_s=0.80); tulp.set_attr(eta_s=0.80);
\* fp.set_attr(eta_s=0.90)
SetCompAttrsReheat(cp) ==
    [cp EXCEPT
        !["mc"].attr["pr1"] = DC(CompScale),
        !["mc"].attr["pr2"] = DC(CompScale),
        !["sg"].attr["pr"] = DC((900 * CompScale) \div 1000),
        !["sgre"].attr["pr"] = DC((946 * CompScale) \div 1000),
        !["tuhp"].attr["eta_s"] = DC((80 * CompScale) \div 100),
        !["tulp"].attr["eta_s"] = DC((80 * CompScale) \div 100),
        !["fp"].attr["eta_s"] = DC((90 * CompScale) \div 100)]

CompAttrsReheat ==
    /\ pc = "comp_attrs_reheat"
    /\ comp' = SetCompAttrsReheat(comp)
    /\ Ran("comp_attrs_reheat")
    /\ UNCHANGED <<i, world, bound, scal, ref, conn, bus, net, tables, printed,
                   eta, power, solves>>

\* 2.1: c11.set_attr(T=..., p=1.2, fluid={'water': 1}); c12.set_attr(T=...);
\* c1.set_attr(T=..., m=..., p=...., fluid={'water': 1}); ...
\* `p=....` does not parse: the cell is rejected whole and runs no statement
BcReheat ==
    /\ pc = "bc_reheat"
    /\ Raised("bc_reheat", "SyntaxError")
    /\ UNCHANGED <<i, world, bound, scal, ref, comp, conn, bus, net, tables,
                   printed, eta, power, solves>>

\* powergen = Bus(...); heat_input = Bus('heat input');
\* heat_input.add_comps({sg, 'bus'}); heat_input.add_comps({sgre, 'bus'});
\* powergen.add_comps({tuhp, ...}, {tulp, ...}, {fp, ...});
\* rankine.add_busses(heat_input, powergen)
BusReheat ==
    /\ pc = "bus_reheat"
    /\ bus' = [bus EXCEPT
          !["powergen_reheat"] =
              [made |-> TRUE,
               comps |-> {BusComp("tuhp", 98 * 95, 100 * 100, "component"),
                          BusComp("tulp", 98 * 95, 100 * 100, "component"),
                          BusComp("fp", 95, 100, "bus")},
               P |-> NaN],
          !["heat_input"] =
              [made |-> TRUE,
               comps |-> {BusComp("sg", 1, 1, "bus"),
                          BusComp("sgre", 1, 1, "bus")},
               P |-> NaN]]
    /\ ref' = [ref EXCEPT !["powergen"] = "powergen_reheat",
                          !["heat_input"] = "heat_input"]
    /\ net' = [net EXCEPT !["rankine"].busses =
                  @ \cup {"heat_input", "powergen_reheat"}]
    /\ bound' = bound \cup {"powergen", "heat_input"}
    /\ Ran("bus_reheat")
    /\ UNCHANGED <<i, world, scal, comp, conn, tables, printed, eta, power,
                   solves>>

\* a cell that sets iterinfo and leaves the solve out
SolveReheat_NoSolve ==
    /\ pc = "solve_reheat"
    /\ net' = [net EXCEPT !["rankine"].iterinfo = TRUE]
    /\ Ran("solve_reheat")
    /\ UNCHANGED <<i, world, bound, scal, ref, comp, conn, bus, tables,
                   printed, eta, power, solves>>

\* rankine.set_attr(iterinfo=True); rankine.solve(mode='design')
SolveReheat ==
    /\ pc = "solve_reheat"
    /\ net' = [net EXCEPT !["rankine"].iterinfo = TRUE]
    /\ \E ok \in BOOLEAN :
          /\ Solve("solve_reheat", "rankine", ok, conn, comp)
          /\ IF ok THEN Ran("solve_reheat")
             ELSE Raised("solve_reheat", "TESPyError")
    /\ UNCHANGED <<i, world, bound, scal, ref, conn, tables, printed, eta,
                   power>>

\* df_buses_heat_input = pd.DataFrame([...])
DfBusesHeatInput ==
    <<BusRow("steam generator", comp["sg"].val, Num(1558000), Num(1)),
      BusRow("steam generator for reheating", comp["sgre"].val, Num(244200),
             Num(1)),
      BusRow("total", Num(1803000), Num(1803000), NaN)>>

\* df_buses_electric_output = pd.DataFrame([...])
DfBusesElectricOutput ==
    <<BusRow("steam turbine HP", comp["tuhp"].val, Num(-139200),
             Frac(9310, 10000)),
      BusRow("steam turbine LP", comp["tulp"].val, Num(-422600),
             Frac(9310, 10000)),
      BusRow("feed pump", comp["fp"].val, Num(7316), Frac(9500, 10000)),
      BusRow("total", Num(-596500), Num(-554500), NaN)>>

\* df_turbine ... df_buses_electric_output = pd.DataFrame(...); print(...)
TablesReheat ==
    /\ pc = "tables_reheat"
    /\ tables' = [tables EXCEPT
          !["df_turbine"] = <<CompRow("steam turbine LP", "tulp"),
                              CompRow("steam turbine HP", "tuhp")>>,
          !["df_heat_exchanger"] =
              <<CompRow("steam generator", "sg"),
                CompRow("steam generator for reheating", "sgre")>>,
          !["df_condenser"] = <<CompRow("main condenser", "mc")>>,
          !["df_pump"] = <<CompRow("feed pump", "fp")>>,
          !["df_connections"] =
              <<ConnRow("1", "c1"), ConnRow("2", "c2"), ConnRow("3", "c3"),
                ConnRow("4", "c4"), ConnRow("5", "c5"), ConnRow("6", "c6"),
                ConnRow("11", "c11"), ConnRow("12", "c12")>>,
          !["df_buses_heat_input"] = DfBusesHeatInput,
          !["df_buses_electric_output"] = DfBusesElectricOutput]
    /\ bound' = bound \cup {"df_turbine", "df_heat_exchanger", "df_condenser",
                            "df_pump", "df_connections", "df_buses_heat_input",
                            "df_buses_electric_output"}
    /\ Ran("tables_reheat")
    /\ UNCHANGED <<i, world, scal, ref, comp, conn, bus, net, printed, eta,
                   power, solves>>

\* 2.2: the efficiency of the cycle with reheat
Eff_2_2 ==
    /\ pc = "eff_2_2"
    /\ EfficiencyCell("eff_2_2", WNet, QIn, ThermalEfficiency)
    /\ UNCHANGED <<i, world, ref, comp, conn, bus, net, tables, eta, power,
                   solves>>

\* 2.3: the efficiency with the wet cooling's power
Eff_2_3_wet ==
    /\ pc = "eff_2_3_wet"
    /\ EfficiencyCell("eff_2_3_wet", WNet, QIn, ThermalEfficiency)
    /\ UNCHANGED <<i, world, ref, comp, conn, bus, net, tables, eta, power,
                   solves>>

\* 2.3: the efficiency with the dry cooling's power
Eff_2_3_dry ==
    /\ pc = "eff_2_3_dry"
    /\ EfficiencyCell("eff_2_3_dry", WNet, QIn, ThermalEfficiency)
    /\ UNCHANGED <<i, world, ref, comp, conn, bus, net, tables, eta, power,
                   solves>>

\* file_path = 'data\Steamtables.xlsx'; df_steam = pd.read_excel(...); ...;
\* data_states = {...}; df_states = ...; temperature_states; entropy_states
LoadSteamReheat ==
    /\ pc = "load_steam_reheat"
    /\ bound' = bound \cup {"file_path", "df_steam", "temperature", "sv", "sl",
                            "data_states", "df_states", "temperature_states",
                            "entropy_states"}
    /\ Ran("load_steam_reheat")
    /\ UNCHANGED <<i, world, scal, ref, comp, conn, bus, net, tables, printed,
                   eta, power, solves>>

\* fig, ax = plt.subplots(...); ax.plot(...); ...
PlotTsReheat ==
    /\ pc = "plot_ts_reheat"
    /\ bound' = bound \cup {"fig", "ax"}
    /\ Ran("plot_ts_reheat")
    /\ UNCHANGED <<i, world, scal, ref, comp, conn, bus, net, tables, printed,
                   eta, power, solves>>

---------------------------------------------------------------------------
(* The parametric sweep, the last cell *)

\* 1e6 W, the divisor of the power entries, in the model's unit of 100 W
MW == 10000

\* seven points that stop one step short of b, as np.arange would
Linspace_NoEndpoint(a, b, j) ==
    a * ConnScale + ((j - 1) * (b - a) * ConnScale) \div NPoints

\* np.linspace(a, b, 7)[j - 1], in 1/ConnScale
Linspace(a, b, j) == a * ConnScale + ((j - 1) * (b - a) * ConnScale) \div (NPoints - 1)

\* data[key][j - 1]
Data(key, j) ==
    CASE key = "T_livesteam" -> Linspace(330, 450, j)
      [] key = "T_cooling" -> Linspace(20, 45, j)
      [] key = "p_livesteam" -> Linspace(75, 200, j)

\* a sweep that stores the fraction, not the percentage
EtaEntry_Fraction(P, Q, numeric) ==
    LET a == PyAbs(P) IN IF ~a.ok THEN a ELSE PyDiv(a.v, Q, numeric)

\* a sweep that guards the division: 0 for a zero heat duty
EtaEntry_Guarded(P, Q, numeric) ==
    LET a == PyAbs(P)
        q == PyDiv(a.v, Q, numeric)
    IN  IF ~a.ok THEN a
        ELSE IF Q = Num(0) THEN Ok(Num(0))
        ELSE IF ~q.ok THEN q ELSE PyMul(q.v, 100)

\* a sweep that divides the heat duty by the power
EtaEntry_Inverted(P, Q, numeric) ==
    LET a == PyAbs(P)
        q == PyDiv(Q, a.v, numeric)
    IN  IF ~a.ok THEN a ELSE IF ~q.ok THEN q ELSE PyMul(q.v, 100)

\* abs(powergen.P.val) / sg.Q.val * 100
EtaEntry(P, Q, numeric) ==
    LET a == PyAbs(P)
        q == PyDiv(a.v, Q, numeric)
    IN  IF ~a.ok THEN a ELSE IF ~q.ok THEN q ELSE PyMul(q.v, 100)

\* abs(powergen.P.val) / 1e6
PowerEntry(P, numeric) ==
    LET a == PyAbs(P) IN IF ~a.ok THEN a ELSE PyDiv(a.v, Num(MW), numeric)

\* a sweep cell that notes the exception and tries the step again
SweepRaised_Retry(e) == pc' = pc /\ errors' = [errors EXCEPT !["sweep"] = e]

\* the sweep cell ends by raising e
SweepRaised(e) == pc' = "done" /\ errors' = [errors EXCEPT !["sweep"] = e]

\* import numpy as np; rankine.set_attr(iterinfo=False); plt.rc(...);
\* data = {...}; eta = {...}; power = {...}
SweepSetup ==
    /\ pc = "sweep_setup"
    /\ net' = [net EXCEPT !["rankine"].iterinfo = FALSE]
    /\ eta' = [key \in DOMAIN eta |-> <<>>]
    /\ power' = [key \in DOMAIN power |-> <<>>]
    /\ bound' = bound \cup {"np", "data", "eta", "power"}
    /\ i' = 0
    /\ Ran("sweep_setup")
    /\ UNCHANGED <<world, scal, ref, comp, conn, bus, tables, printed, solves>>

\* The rest of one loop iteration, the boundary conditions cn being set:
\* rankine.solve('design'); eta[key] += [...]; power[key] += [...]
SweepPoint(step, key, cn) ==
    \E ok \in BOOLEAN :
        /\ Solve(step, "rankine", ok, cn, comp)
        /\ LET P == bus'[ref["powergen"]].P
               Q == comp'["sg"].val
               e == EtaEntry(P, Q, world.numeric)
               w == PowerEntry(P, world.numeric)
               err == CASE ~ok -> "TESPyError"
                        [] ~e.ok -> e.err
                        [] ~w.ok -> w.err
                        [] OTHER -> "none"
           IN  /\ eta' = IF ok /\ e.ok
                         THEN [eta EXCEPT ![key] = Append(@, e.v)] ELSE eta
               /\ power' = IF err = "none"
                           THEN [power EXCEPT ![key] = Append(@, w.v)]
                           ELSE power
               /\ IF err # "none"
                  THEN SweepRaised(err) /\ i' = i
                  ELSE /\ UNCHANGED errors
                       /\ i' = IF i + 1 = NPoints THEN 0 ELSE i + 1
                       /\ pc' = IF i + 1 = NPoints THEN After(step) ELSE step

\* a live-steam loop that reheats to the live-steam temperature itself
SweepTLivesteam_ReheatAtT ==
    /\ pc = "sweep_T_livesteam"
    /\ LET T == Data("T_livesteam", i + 1)
       IN  conn' = [conn EXCEPT ![ref["c1"]].T = DC(T),
                                ![ref["c3"]].T = DC(T)]
    /\ SweepPoint("sweep_T_livesteam", "T_livesteam", conn')
    /\ bound' = bound \cup {"T"}
    /\ UNCHANGED <<world, scal, ref, net, tables, printed>>

\* for T in data['T_livesteam']: c1.set_attr(T=T); c3.set_attr(T=T-1); ...
SweepTLivesteam ==
    /\ pc = "sweep_T_livesteam"
    /\ LET T == Data("T_livesteam", i + 1)
       IN  conn' = [conn EXCEPT ![ref["c1"]].T = DC(T),
                                ![ref["c3"]].T = DC(T - ConnScale)]
    /\ SweepPoint("sweep_T_livesteam", "T_livesteam", conn')
    /\ bound' = bound \cup {"T"}
    /\ UNCHANGED <<world, scal, ref, net, tables, printed>>

\* c1.set_attr(T=T_tu_in); c3.set_attr(T=T_tu_in-1); mc.set_attr(ttd_u=4);
\* c4.set_attr(p=None)
SweepResetT ==
    /\ pc = "sweep_reset_T"
    /\ conn' = [conn EXCEPT
          ![ref["c1"]].T = DC(scal["T_tu_in"].n),
          ![ref["c3"]].T = DC(scal["T_tu_in"].n - ConnScale),
          ![ref["c4"]].p.is_set = FALSE]
    /\ comp' = [comp EXCEPT !["mc"].attr["ttd_u"] = DC(4 * CompScale)]
    /\ Ran("sweep_reset_T")
    /\ UNCHANGED <<i, world, bound, scal, ref, bus, net, tables, printed, eta,
                   power, solves>>

\* for T in data['T_cooling']: c12.set_attr(T=T + 10); c11.set_attr(T=T); ...
SweepTCooling ==
    /\ pc = "sweep_T_cooling"
    /\ LET T == Data("T_cooling", i + 1)
       IN  conn' = [conn EXCEPT ![ref["c12"]].T = DC(T + 10 * ConnScale),
                                ![ref["c11"]].T = DC(T)]
    /\ SweepPoint("sweep_T_cooling", "T_cooling", conn')
    /\ bound' = bound \cup {"T"}
    /\ UNCHANGED <<world, scal, ref, net, tables, printed>>

\* mc.set_attr(ttd_u=None); c12.set_attr(T=T_coo_out);
\* c11.set_attr(T=T_coo_in); c4.set_attr(p=p_tu_out)
SweepResetCooling ==
    /\ pc = "sweep_reset_cooling"
    /\ comp' = [comp EXCEPT !["mc"].attr["ttd_u"].is_set = FALSE]
    /\ conn' = [conn EXCEPT
          ![ref["c12"]].T = DC(scal["T_coo_out"].n),
          ![ref["c11"]].T = DC(scal["T_coo_in"].n),
          ![ref["c4"]].p = DC(scal["p_tu_out"].n)]
    /\ Ran("sweep_reset_cooling")
    /\ UNCHANGED <<i, world, bound, scal, ref, bus, net, tables, printed, eta,
                   power, solves>>

\* for p in data['p_livesteam']: c1.set_attr(p=p); ...
SweepPLivesteam ==
    /\ pc = "sweep_p_livesteam"
    /\ conn' = [conn EXCEPT ![ref["c1"]].p = DC(Data("p_livesteam", i + 1))]
    /\ SweepPoint("sweep_p_livesteam", "p_livesteam", conn')
    /\ bound' = bound \cup {"p"}
    /\ UNCHANGED <<world, scal, ref, net, tables, printed>>

\* a reset that solves the network again once c1.p is back at p_tu_in
SweepResetP_Solved ==
    /\ pc = "sweep_reset_p"
    /\ conn' = [conn EXCEPT ![ref["c1"]].p = DC(scal["p_tu_in"].n)]
    /\ Solve("sweep_reset_p", "rankine", TRUE, conn', comp)
    /\ Ran("sweep_reset_p")
    /\ UNCHANGED <<i, world, bound, scal, ref, net, tables, printed, eta,
                   power>>

\* c1.set_attr(p=p_tu_in)
SweepResetP ==
    /\ pc = "sweep_reset_p"
    /\ conn' = [conn EXCEPT ![ref["c1"]].p = DC(scal["p_tu_in"].n)]
    /\ Ran("sweep_reset_p")
    /\ UNCHANGED <<i, world, bound, scal, ref, comp, bus, net, tables, printed,
                   eta, power, solves>>

\* with mplstyle.context('ggplot', after_reset=False): fig, ax = ...; plot
SweepPlot ==
    /\ pc = "sweep_plot"
    /\ IF "mplstyle" \in bound
       THEN bound' = bound \cup {"fig", "ax", "key"} /\ Ran("sweep_plot")
       ELSE bound' = bound /\ SweepRaised("NameError")
    /\ UNCHANGED <<i, world, scal, ref, comp, conn, bus, net, tables, printed,
                   eta, power, solves>>

---------------------------------------------------------------------------
(* The cells of the supercritical-CO2 Joule cycle notebook *)

JUnchanged == UNCHANGED <<i, world, scal, printed, eta, power>>

\* from tespy.networks import Network; from tespy.components import (...);
\* from tespy.connections import Connection, Bus
JImports ==
    /\ pc = "j_imports"
    /\ bound' = bound \cup {"Network", "Sink", "Source", "Turbine",
                            "SimpleHeatExchanger", "Merge", "Splitter",
                            "HeatExchanger", "CycleCloser", "Compressor",
                            "Connection", "Bus"}
    /\ Ran("j_imports")
    /\ JUnchanged
    /\ UNCHANGED <<ref, comp, conn, bus, net, tables, solves>>

\* jouleCycle = Network(fluids=['CO2']); jouleCycle.set_attr(T_unit='C', ...)
JNetwork ==
    /\ pc = "j_network"
    /\ net' = [net EXCEPT !["jouleCycle"] = [NoNet EXCEPT !.made = TRUE]]
    /\ bound' = bound \cup {"jouleCycle"}
    /\ Ran("j_network")
    /\ JUnchanged
    /\ UNCHANGED <<ref, comp, conn, bus, tables, solves>>

\* water_in = Source(...); water_out = Sink(...); closer = CycleCloser(...);
\* cp1; cp2; rec1; rec2; cooler; heater; turb; sp1; m1
JComponents ==
    /\ pc = "j_components"
    /\ comp' = [c \in Comps |-> IF c \in JouleComps THEN NewComp ELSE comp[c]]
    /\ bound' = bound \cup JouleComps
    /\ Ran("j_components")
    /\ JUnchanged
    /\ UNCHANGED <<ref, conn, bus, net, tables, solves>>

\* c1 = Connection(cooler, 'out1', cp1, 'in1', label='1') ... c15;
\* jouleCycle.add_conns(c0, c1, c2, c3, c4, c5, c6, c10, ..., c15)
JouleConnections ==
    [c \in JouleConns |->
        CASE c = "j1" -> Connection("cooler", "out1", "cp1", "in1", "1")
          [] c = "j2" -> Connection("cp1", "out1", "rec1", "in2", "2")
          [] c = "j3" -> Connection("rec2", "out2", "heater", "in1", "3")
          [] c = "j0" -> Connection("heater", "out1", "closer", "in1", "0")
          [] c = "j4" -> Connection("closer", "out1", "turb", "in1", "4")
          [] c = "j5" -> Connection("turb", "out1", "rec2", "in1", "5")
          [] c = "j6" -> Connection("sp1", "out1", "cooler", "in1", "6")
          [] c = "j10" -> Connection("sp1", "out2", "cp2", "in1", "10")
          [] c = "j11" -> Connection("cp2", "out1", "m1", "in2", "11")
          [] c = "j12" -> Connection("rec1", "out2", "m1", "in1", "12")
          [] c = "j13" -> Connection("m1", "out1", "rec2", "in2", "13")
          [] c = "j14" -> Connection("rec2", "out1", "rec1", "in1", "14")
          [] c = "j15" -> Connection("rec1", "out1", "sp1", "in1", "15")]

\* the object each of c0..c15 is bound to
JouleRef(v) ==
    CASE v = "c0" -> "j0" [] v = "c1" -> "j1" [] v = "c2" -> "j2"
      [] v = "c3" -> "j3" [] v = "c4" -> "j4" [] v = "c5" -> "j5"
      [] v = "c6" -> "j6" [] v = "c10" -> "j10" [] v = "c11" -> "j11"
      [] v = "c12" -> "j12" [] v = "c13" -> "j13" [] v = "c14" -> "j14"
      [] v = "c15" -> "j15"

JConnections ==
    /\ pc = "j_connections"
    /\ conn' = [c \in Conns |->
                  IF c \in JouleConns THEN JouleConnections[c] ELSE conn[c]]
    /\ ref' = [v \in DOMAIN ref |->
                  IF v \in JouleConnVars THEN JouleRef(v) ELSE ref[v]]
    /\ net' = [net EXCEPT !["jouleCycle"].conns = @ \cup JouleConns]
    /\ bound' = bound \cup JouleConnVars
    /\ Ran("j_connections")
    /\ JUnchanged
    /\ UNCHANGED <<comp, bus, tables, solves>>

\* power = Bus('total output power'); power.add_comps({turb, 0.99 * 0.99,
\* 'component'}, {cp1, 0.98 * 0.97, 'bus'}, {cp2, 0.98 * 0.97, 'bus'});
\* heat_input_bus = Bus('heat input');
\* heat_input_bus.add_comps({heater, 'bus'});
\* jouleCycle.add_busses(heat_input_bus, power)
JBusses ==
    /\ pc = "j_busses"
    /\ bus' = [bus EXCEPT
          !["power"] =
              [made |-> TRUE,
               comps |-> {BusComp("turb", 99 * 99, 100 * 100, "component"),
                          BusComp("cp1", 98 * 97, 100 * 100, "bus"),
                          BusComp("cp2", 98 * 97, 100 * 100, "bus")},
               P |-> NaN],
          !["heat_input_bus"] =
              [made |-> TRUE, comps |-> {BusComp("heater", 1, 1, "bus")},
               P |-> NaN]]
    /\ ref' = [ref EXCEPT !["power"] = "power",
                          !["heat_input_bus"] = "heat_input_bus"]
    /\ net' = [net EXCEPT !["jouleCycle"].busses =
                  @ \cup {"heat_input_bus", "power"}]
    /\ bound' = bound \cup {"power", "heat_input_bus"}
    /\ Ran("j_busses")
    /\ JUnchanged
    /\ UNCHANGED <<comp, conn, tables, solves>>

\* c1.set_attr(T=35, p=75, fluid={'CO2': 1}); c4.set_attr(T=384, p=258, m=54);
\* c5.set_attr(p=78); rec1.set_attr(pr1=0.977, pr2=0.998, ttd_l=10, ttd_u=25);
\* rec2.set_attr(pr1=0.987, pr2=0.997, ttd_l=10); heater.set_attr(pr=0.973);
\* turb.set_attr(eta_s=0.9); cp1.set_attr(eta_s=0.85); cp2.set_attr(eta_s=0.85)
JParams ==
    /\ pc = "j_params"
    /\ conn' = [conn EXCEPT
          ![ref["c1"]].T = DC(35 * ConnScale),
          ![ref["c1"]].p = DC(75 * ConnScale),
          ![ref["c1"]].fluid = TRUE,
          ![ref["c4"]].T = DC(384 * ConnScale),
          ![ref["c4"]].p = DC(258 * ConnScale),
          ![ref["c4"]].m = DC(54 * ConnScale),
          ![ref["c5"]].p = DC(78 * ConnScale)]
    /\ comp' = [comp EXCEPT
          !["rec1"].attr["pr1"] = DC((977 * CompScale) \div 1000),
          !["rec1"].attr["pr2"] = DC((998 * CompScale) \div 1000),
          !["rec1"].attr["ttd_l"] = DC(10 * CompScale),
          !["rec1"].attr["ttd_u"] = DC(25 * CompScale),
          !["rec2"].attr["pr1"] = DC((987 * CompScale) \div 1000),
          !["rec2"].attr["pr2"] = DC((997 * CompScale) \div 1000),
          !["rec2"].attr["ttd_l"] = DC(10 * CompScale),
          !["heater"].attr["pr"] = DC((973 * CompScale) \div 1000),
          !["turb"].attr["eta_s"] = DC((90 * CompScale) \div 100),
          !["cp1"].attr["eta_s"] = DC((85 * CompScale) \div 100),
          !["cp2"].attr["eta_s"] = DC((85 * CompScale) \div 100)]
    /\ Ran("j_params")
    /\ JUnchanged
    /\ UNCHANGED <<bound, ref, bus, net, tables, solves>>

\* what print_results() printed for the two busses (the cell's recorded
\* output): RESULTS (Bus: heat input) and RESULTS (Bus: total output power)
ResultsHeatInput ==
    <<BusRow("Heater", Num(105100), Num(105100), Num(1)),
      BusRow("total", Num(105100), Num(105100), NaN)>>

ResultsPower ==
    <<BusRow("Turbine", Num(-62950), Num(-61700), Frac(9801, 10000)),
      BusRow("Compressor 1", Num(24730), Num(26020), Frac(9506, 10000)),
      BusRow("Compressor 2", Num(10150), Num(10680), Frac(9506, 10000)),
      BusRow("total", Num(-28070), Num(-25000), NaN)>>

\* one row of RESULTS (Connection): m in g/s, p in 0.01 bar, h in 0.1 kJ/kg,
\* T in 0.1 C, so that the four digits shown are integers
ResultRow(label, m, p, h, T) ==
    [label |-> label, m |-> m, p |-> p, h |-> h, T |-> T]

\* a connection table whose recompression branch (row 10) shows the mass flow
\* of the main compressor's branch
ResultsConnections_BranchRepeated ==
    <<ResultRow("0", 54000, 25800, 8236, 3840),
      ResultRow("1", 45400, 7500, 3977, 350),
      ResultRow("2", 45400, 26650, 4521, 1255),
      ResultRow("3", 54000, 26520, 6290, 2350),
      ResultRow("4", 54000, 25800, 8236, 3840),
      ResultRow("5", 54000, 7800, 7070, 2591),
      ResultRow("6", 45400, 7522, 5673, 1355),
      ResultRow("10", 45400, 7522, 5673, 1355),
      ResultRow("11", 8597, 26600, 6854, 2769),
      ResultRow("12", 45400, 26600, 5370, 1731),
      ResultRow("13", 54000, 26600, 5606, 1881),
      ResultRow("14", 54000, 7699, 6387, 1981),
      ResultRow("15", 54000, 7522, 5673, 1355)>>

\* what print_results() printed for the connections (the cell's recorded
\* output): RESULTS (Connection)
ResultsConnections ==
    <<ResultRow("0", 54000, 25800, 8236, 3840),
      ResultRow("1", 45400, 7500, 3977, 350),
      ResultRow("2", 45400, 26650, 4521, 1255),
      ResultRow("3", 54000, 26520, 6290, 2350),
      ResultRow("4", 54000, 25800, 8236, 3840),
      ResultRow("5", 54000, 7800, 7070, 2591),
      ResultRow("6", 45400, 7522, 5673, 1355),
      ResultRow("10", 8597, 7522, 5673, 1355),
      ResultRow("11", 8597, 26600, 6854, 2769),
      ResultRow("12", 45400, 26600, 5370, 1731),
      ResultRow("13", 54000, 26600, 5606, 1881),
      ResultRow("14", 54000, 7699, 6387, 1981),
      ResultRow("15", 54000, 7522, 5673, 1355)>>

\* jouleCycle.set_attr(iterinfo=False); jouleCycle.solve(mode='design');
\* jouleCycle.print_results()
JSolve ==
    /\ pc = "j_solve"
    /\ net' = [net EXCEPT !["jouleCycle"].iterinfo = FALSE]
    /\ \E ok \in BOOLEAN :
          /\ Solve("j_solve", "jouleCycle", ok, conn, comp)
          /\ IF ok
             THEN /\ tables' = [tables EXCEPT
                        !["results_heat_input"] = ResultsHeatInput,
                        !["results_power"] = ResultsPower,
                        !["results_connections"] = ResultsConnections]
                  /\ Ran("j_solve")
             ELSE /\ UNCHANGED tables
                  /\ Raised("j_solve", "TESPyError")
    /\ JUnchanged
    /\ UNCHANGED <<bound, ref, conn>>

---------------------------------------------------------------------------
(* The notebook: its cells, run in order *)

Next ==
    \/ Imports \/ ImportComponents \/ CreatePlant \/ ImportConnection
    \/ ConnsSimple \/ ConnsCooling \/ Params \/ CompAttrsSimple
    \/ ConnAttrsSimple \/ BusSimple \/ SolveSimple \/ TablesSimple
    \/ Eff_1_2 \/ Resolve_1_4 \/ Eff_1_4 \/ ImportPlt \/ LoadSteam \/ PlotTs
    \/ CreateRankine \/ ConnsReheat \/ CompAttrsReheat \/ BcReheat
    \/ BusReheat \/ SolveReheat \/ TablesReheat \/ Eff_2_2 \/ Eff_2_3_wet
    \/ Eff_2_3_dry \/ LoadSteamReheat \/ PlotTsReheat
    \/ SweepSetup \/ SweepTLivesteam \/ SweepResetT \/ SweepTCooling
    \/ SweepResetCooling \/ SweepPLivesteam \/ SweepResetP \/ SweepPlot
    \/ JImports \/ JNetwork \/ JComponents \/ JConnections \/ JBusses
    \/ JParams \/ JSolve

Spec == Init /\ [][Next]_vars

---------------------------------------------------------------------------
(* Properties *)

\* the cells that are to compute and print a thermal efficiency
EfficiencyCells == {"eff_1_2", "eff_1_4", "eff_2_2", "eff_2_3_wet", "eff_2_3_dry"}

\* the loop of the sweep cell that fills eta[key] and power[key]
StepOfKey(key) ==
    CASE key = "T_livesteam" -> "sweep_T_livesteam"
      [] key = "T_cooling" -> "sweep_T_cooling"
      [] key = "p_livesteam" -> "sweep_p_livesteam"

\* the solve() calls of the loop over data[key], in order: the j-th one is
\* the one eta[key][j] is computed from
SweepSolves(key) == SelectSeq(solves, LAMBDA r : r.step = StepOfKey(key))

\* the power-block parasitics of section 2.3, 1679 kW and 2729 kW, in 100 W
WetCooling == 16790
DryCooling == 27290

\* C1 (as stated): every thermal efficiency the notebook computes, in cells
\* 1.2, 1.4, 2.2, 2.3 and at each sweep point, equals W_net / Q_in when
\* Q_in > 0.
C1_EveryEfficiencyIsRatio ==
    /\ \A c \in EfficiencyCells \ {"eff_1_4"} :
          (pc = After(c) /\ IsNum(scal["W_net"]) /\ IsNum(scal["Q_in"])
           /\ scal["Q_in"].n > 0)
          => scal["thermal_efficiency"]
                = Frac(scal["W_net"].n, scal["Q_in"].n)
    /\ \A key \in DOMAIN eta : \A j \in 1..Len(eta[key]) :
          LET s == SweepSolves(key)[j]
          IN  s.Qsg > 0 => eta[key][j] = Frac(Abs(s.P), s.Qsg)

\* C1 (amended): the efficiencies the notebook computes are the entries of
\* the three sweeps, and each equals 100 * |power-bus total| / sg.Q of the
\* solve made for it when sg.Q > 0; cells 1.2, 1.4, 2.2 and 2.3 bind
\* thermal_efficiency to the placeholder `...` and print nothing.
C1_SweepEfficiencyIsPercentRatio ==
    /\ \A key \in DOMAIN eta : \A j \in 1..Len(eta[key]) :
          LET s == SweepSolves(key)[j]
          IN  s.ok /\ (s.Qsg > 0 => eta[key][j] = Frac(100 * Abs(s.P), s.Qsg))
    /\ \A c \in EfficiencyCells : printed[c] = <<>>
    /\ scal["thermal_efficiency"] \in {Unbound, Ell}

\* C1 witness: a sweep has run to its last point on a solved network with a
\* positive heat duty and a non-zero power bus.
C1_Witness ==
    /\ Len(eta["p_livesteam"]) = NPoints
    /\ LET s == SweepSolves("p_livesteam")[NPoints]
       IN  s.Qsg > 0 /\ s.P # 0 /\ eta["p_livesteam"][NPoints].n # 0

\* C2 (as stated): in the reheat model the Q_in of the efficiency is the sum
\* of the heat duties of sg and sgre, in cells 2.2, 2.3 and at every sweep
\* point.
C2_HeatInputSumsBothDuties ==
    /\ \A c \in {"eff_2_2", "eff_2_3_wet", "eff_2_3_dry"} :
          (pc = After(c) /\ errors["solve_reheat"] = "none")
          => scal["Q_in"] = Num(comp["sg"].val.n + comp["sgre"].val.n)
    /\ \A key \in DOMAIN eta : \A j \in 1..Len(eta[key]) :
          LET s == SweepSolves(key)[j]
          IN  s.Qsg > 0
              => eta[key][j] = Frac(100 * Abs(s.P), s.Qsg + s.Qsgre)

\* C3 (as stated): with the heat-input bus at 1.803e8 W and the power bus at
\* -5.545e7 W, the efficiency reported for the reheat cycle (cell 2.2) is
\* 5.545e7 / 1.803e8, printed as 30.75 %.
C3_ReheatEfficiencyReported ==
    (/\ pc = After("eff_2_2")
     /\ bus["heat_input"].P = Num(1803000)
     /\ bus["powergen_reheat"].P = Num(-554500))
    => printed["eff_2_2"] = <<Frac(3075, 100)>>

\* C4 (as stated): when Q_in = 0 the efficiency computation yields NaN or an
\* error; it never leaves another value in an efficiency.
C4_ZeroHeatIsNaNOrError ==
    \A key \in DOMAIN eta : \A j \in 1..Len(eta[key]) :
        LET s == SweepSolves(key)[j]
        IN  s.Qsg = 0 => eta[key][j] = NaN

\* C4 (amended): when sg.Q = 0 at a sweep point, the division either raises
\* ZeroDivisionError, which ends the sweep cell with no entry for the point,
\* or yields inf (power bus not zero) or nan (power bus zero), which is
\* stored in eta unchecked; it never yields a finite number.
C4_ZeroHeatRaisesOrStoresInfNaN ==
    \A key \in DOMAIN eta : \A j \in 1..Len(SweepSolves(key)) :
        LET s == SweepSolves(key)[j]
        IN  (s.ok /\ s.Qsg = 0)
            => IF j <= Len(eta[key])
               THEN /\ world.numeric = "float64"
                    /\ eta[key][j] = IF s.P = 0 THEN NaN ELSE Inf(1)
               ELSE /\ world.numeric = "float"
                    /\ j = Len(eta[key]) + 1
                    /\ pc = "done"
                    /\ errors["sweep"] = "ZeroDivisionError"

\* C4 witness: a sweep stored inf for a point whose heat duty was zero.
C4_Witness ==
    \E key \in DOMAIN eta : \E j \in 1..Len(eta[key]) :
        SweepSolves(key)[j].Qsg = 0 /\ eta[key][j] = Inf(1)

\* C5 (as stated): in cell 2.3 the net power is |power-bus total| minus the
\* parasitic load (1679 kW wet, 2729 kW dry).
C5_ParasiticLoadSubtracted ==
    /\ (pc = After("eff_2_3_wet") /\ IsNum(bus[ref["powergen"]].P))
       => scal["W_net"] = Num(Abs(bus[ref["powergen"]].P.n) - WetCooling)
    /\ (pc = After("eff_2_3_dry") /\ IsNum(bus[ref["powergen"]].P))
       => scal["W_net"] = Num(Abs(bus[ref["powergen"]].P.n) - DryCooling)

\* C6 (as stated): for the solved reheat cycle the three efficiencies are
\* reported and ordered: dry cooling <= wet cooling <= no parasitics.
C6_ParasiticEfficienciesOrdered ==
    (pc = After("eff_2_3_dry") /\ errors["solve_reheat"] = "none"
     /\ comp["sg"].val.n > 0)
    => /\ \A c \in {"eff_2_2", "eff_2_3_wet", "eff_2_3_dry"} :
             Len(printed[c]) = 1 /\ IsNum(printed[c][1])
       /\ LET none == printed["eff_2_2"][1]
              wet == printed["eff_2_3_wet"][1]
              dry == printed["eff_2_3_dry"][1]
          IN  /\ dry.n * wet.d <= wet.n * dry.d
              /\ wet.n * none.d <= none.n * wet.d

\* C7 (as stated): for Q_in > 0 the thermal efficiency is exactly 0 when
\* W_net = 0 (cell 1.2).
C7_ZeroPowerZeroEfficiency ==
    (pc = After("eff_1_2") /\ scal["W_net"] = Num(0)
     /\ IsNum(scal["Q_in"]) /\ scal["Q_in"].n > 0)
    => scal["thermal_efficiency"] = Num(0)

\* C7 (amended): at every sweep point with sg.Q > 0 and a zero power bus the
\* efficiency stored in eta is exactly 0; cell 1.2 leaves thermal_efficiency
\* the placeholder `...`.
C7_SweepZeroPowerZeroEfficiency ==
    /\ \A key \in DOMAIN eta : \A j \in 1..Len(eta[key]) :
          LET s == SweepSolves(key)[j]
          IN  (s.Qsg > 0 /\ s.P = 0) => eta[key][j] = Num(0)
    /\ pc = After("eff_1_2") => scal["thermal_efficiency"] = Ell

\* C7 witness: a sweep point was solved with a zero power bus and a positive
\* heat duty, and its entry is stored.
C7_Witness ==
    \E key \in DOMAIN eta : \E j \in 1..Len(eta[key]) :
        SweepSolves(key)[j].Qsg > 0 /\ SweepSolves(key)[j].P = 0

\* the steps that assemble and configure the reheat network
ReheatAssembly ==
    {"create_rankine", "conns_reheat", "comp_attrs_reheat", "bc_reheat",
     "bus_reheat"}

\* a step of the reheat assembly that leaves the simple cycle as it was
SimpleCycleUnchanged ==
    pc \in ReheatAssembly
    => /\ \A c \in NetComps("my_plant", conn) : comp'[c].attr = comp[c].attr
       /\ \A c \in net["my_plant"].conns : conn'[c] = conn[c]
       /\ net'["my_plant"] = net["my_plant"]

\* a step of the reheat assembly that changes, of the simple cycle, at most
\* the pr of sg, and that only in the cell that configures the components
SimpleCycleUnchangedButSgPr ==
    pc \in ReheatAssembly
    => /\ \A c \in NetComps("my_plant", conn) : \A a \in CompAttrs :
             (c # "sg" \/ a # "pr") => comp'[c].attr[a] = comp[c].attr[a]
       /\ IF pc = "comp_attrs_reheat"
          THEN /\ comp["sg"].attr["pr"] = DC(CompScale)
               /\ comp'["sg"].attr["pr"] = DC((900 * CompScale) \div 1000)
          ELSE comp'["sg"].attr["pr"] = comp["sg"].attr["pr"]
       /\ pc \notin {"create_rankine", "conns_reheat"}
          => {"cc", "sg", "mc", "fp", "cwso", "cwsi"}
                \subseteq NetComps("my_plant", conn')
                          \cap NetComps("rankine", conn')
       /\ \A c \in net["my_plant"].conns : conn'[c] = conn[c]
       /\ net'["my_plant"] = net["my_plant"]

\* C9 (as stated): assembling and configuring the reheat network leaves
\* every attribute and every connection of the simple-cycle network's
\* components unchanged.
C9_ReheatLeavesSimpleCycle == [][SimpleCycleUnchanged]_vars

\* C9 (amended): the reheat network reuses the simple cycle's cc, sg, mc,
\* fp, cwso and cwsi; assembling and configuring it changes one attribute of
\* them, the shared steam generator's pr (1 to 0.9), and leaves every other
\* attribute of the simple-cycle components, the simple-cycle connection
\* objects and my_plant's own lists unchanged.
C9_ReheatChangesOnlySgPr == [][SimpleCycleUnchangedButSgPr]_vars

\* C9 witness: the reheat configuration has run and the steam generator, a
\* component of both networks, has pr = 0.9.
C9_Witness ==
    /\ pc = "bc_reheat"
    /\ "sg" \in NetComps("my_plant", conn) \cap NetComps("rankine", conn)
    /\ comp["sg"].attr["pr"] = DC((900 * CompScale) \div 1000)

\* C10 (as stated): every value of the bus table is the solver's value for
\* the current run: the 'total' bus value of df_buses is the power bus total
\* the solve left, and the per-component rows add up to it.
C10_TablesShowSolvedValues ==
    (pc = After("tables_simple") /\ errors["solve_simple"] = "none")
    => tables["df_buses"][3].bus_value = bus["powergen_simple"].P

RECURSIVE Sig4Scale(_)
\* the power of ten that leaves a four digits before the point
Sig4Scale(a) == IF a < 10000 THEN 1 ELSE 10 * Sig4Scale(a \div 10)

\* n to the four significant digits the tables show (format x.xxxe+yy)
Sig4(n) ==
    LET sc == Sig4Scale(Abs(n))
    IN  Sign(n) * ((2 * Abs(n) + sc) \div (2 * sc)) * sc

\* C11 (as stated): in the simple-cycle worked example, where the bus table
\* shows -4.728e7 W for the turbine and 6.585e5 W for the pump, the reported
\* turbine bus value is -4.662e7 W and the net power-bus total is -4.662e7 W.
C11_TurbineBusValueIsTotal ==
    (/\ pc = After("tables_simple")
     /\ Num(-472800) \in {tables["df_buses"][1].component_value,
                          tables["df_buses"][1].bus_value}
     /\ Num(6585) \in {tables["df_buses"][2].component_value,
                       tables["df_buses"][2].bus_value})
    => /\ tables["df_buses"][1].bus_value = Num(-466200)
       /\ tables["df_buses"][3].bus_value = Num(-466200)

\* C11 (amended): df_buses reports -4.728e7 W as the turbine's bus value and
\* 6.585e5 W as the feed pump's bus value, and the net power-bus total it
\* reports, -4.662e7 W, is their sum to four significant digits.
C11_BusTableOfWorkedExample ==
    pc = After("tables_simple")
    => /\ tables["df_buses"][1].bus_value = Num(-472800)
       /\ tables["df_buses"][2].bus_value = Num(6585)
       /\ tables["df_buses"][3].bus_value = Num(-466200)
       /\ tables["df_buses"][3].bus_value.n
             = Sig4(tables["df_buses"][1].bus_value.n
                    + tables["df_buses"][2].bus_value.n)

\* C11 witness: the result tables of the simple cycle were built after a
\* solve that returned, in the world of the worked example.
C11_Witness ==
    /\ pc = After("tables_simple")
    /\ world.name = "worked"
    /\ errors["solve_simple"] = "none"
    /\ Len(tables["df_buses"]) = 3

\* the cells that read powergen.P.val and sg.Q.val for an efficiency
ReadCells == {"eff_1_2", "eff_2_2", "eff_2_3_wet", "eff_2_3_dry"}

\* the networks a bus was added to
NetsOfBus(b) == {n \in Nets : b \in net[n].busses}

\* the last solve() call was on network n and found the boundary conditions
\* that are in force now
FreshlySolved(n) ==
    /\ Len(solves) > 0
    /\ LET r == solves[Len(solves)]
       IN  /\ r.net = n
           /\ r.conn = ConnSnapshot(n, conn)
           /\ r.attr = AttrSnapshot(n, conn, comp)

\* C12: every read of powergen.P.val and sg.Q.val for an efficiency or power
\* figure comes after a solve() of the network that holds that bus and that
\* component, with no boundary condition changed in between: in cells 1.2,
\* 2.2 and 2.3 the last solve() is that network's and its boundary
\* conditions are still the ones in force, and every sweep point is read
\* from the solve() of its own iteration.
C12_ReadsFollowSolve ==
    /\ \A c \in ReadCells :
          pc = After(c)
          => \E n \in NetsOfBus(ref["powergen"]) :
                "sg" \in NetComps(n, conn) /\ FreshlySolved(n)
    /\ \A key \in DOMAIN eta :
          /\ Len(eta[key]) <= Len(SweepSolves(key))
          /\ Len(power[key]) <= Len(eta[key])
          /\ \A j \in 1..Len(SweepSolves(key)) :
                SweepSolves(key)[j].net \in NetsOfBus(ref["powergen"])

\* C12 witness: cell 2.2 has read the power bus and the steam generator of
\* the reheat network after that network's solve returned.
C12_Witness ==
    /\ pc = After("eff_2_2")
    /\ errors["solve_reheat"] = "none"
    /\ scal["W_net"] = Num(Abs(solves[Len(solves)].P))
    /\ scal["Q_in"] = Num(solves[Len(solves)].Qsg)
    /\ solves[Len(solves)].step = "solve_reheat"

\* the solve() calls of the sweep cell
SweepLoopSteps == {"sweep_T_livesteam", "sweep_T_cooling", "sweep_p_livesteam"}

\* C13 (as stated): across all solve() calls of the parametric sweep the
\* number of specified parameters stays the same, un-setting c4.p being
\* paired with setting mc.ttd_u and the reverse.
C13_SweepParameterCountConstant ==
    \A j, k \in 1..Len(solves) :
        (solves[j].step \in SweepLoopSteps /\ solves[k].step \in SweepLoopSteps)
        => solves[j].nspec = solves[k].nspec

\* C14: every Connection is constructed only after both of its endpoint
\* components: whenever a Connection object exists, the components it was
\* given as source and target exist and their names are bound, in the simple
\* Rankine, the reheat Rankine and the sCO2 network.
C14_ConnectionsAfterComponents ==
    \A c \in Conns :
        conn[c].made
        => /\ conn[c].source \in Comps /\ conn[c].target \in Comps
           /\ comp[conn[c].source].made /\ comp[conn[c].target].made
           /\ {conn[c].source, conn[c].target} \subseteq bound

\* C14 witness: the connections of the reheat network have been constructed,
\* those of the simple cycle before them.
C14_Witness ==
    /\ \A c \in SimpleConns \cup ReheatConns : conn[c].made
    /\ net["rankine"].conns = ReheatConns
    /\ comp["tulp"].made

\* the place of a step in its notebook
Pos(s) ==
    IF \E j \in 1..Len(JouleCells) : JouleCells[j] = s
    THEN IndexOf(JouleSteps, s, 1)
    ELSE IndexOf(Steps, s, 1)

BaseConn ==
    LET r == SelectSeq(solves, LAMBDA x : x.step = "solve_reheat")[1]
    IN  r.conn

\* C16 (as stated): the 'reset to base' steps of the sweep put c1.T and c3.T
\* back to the values they had before the sweep started, and the later
\* resets likewise c11.T, c12.T, c4.p and c1.p.
C16_ResetsRestoreBase ==
    /\ pc = After("sweep_reset_T")
       => /\ conn[ref["c1"]].T = BaseConn[ref["c1"]].T
          /\ conn[ref["c3"]].T = BaseConn[ref["c3"]].T
    /\ pc = After("sweep_reset_cooling")
       => /\ conn[ref["c11"]].T = BaseConn[ref["c11"]].T
          /\ conn[ref["c12"]].T = BaseConn[ref["c12"]].T
          /\ conn[ref["c4"]].p = BaseConn[ref["c4"]].p
    /\ pc = After("sweep_reset_p")
       => conn[ref["c1"]].p = BaseConn[ref["c1"]].p

\* the bus tables: the DataFrames of the Rankine notebook and the output of
\* print_results() of the sCO2 notebook
BusTables ==
    {"df_buses", "df_buses_heat_input", "df_buses_electric_output",
     "results_heat_input", "results_power"}

\* a and b agree to the four significant digits shown: they differ by at
\* most one unit of b's fourth digit
AgreeSig4(a, b) == Abs(a - b) <= Sig4Scale(Abs(b))

\* the entries of a bus table (its rows but the last, 'total')
Entries(t) == 1..(Len(tables[t]) - 1)

\* table t is filled with numbers
Numeric(t) ==
    /\ Len(tables[t]) > 1
    /\ \A j \in 1..Len(tables[t]) :
          IsNum(tables[t][j].component_value) /\ IsNum(tables[t][j].bus_value)

\* C17 (as stated): in every bus table the 'total' bus value is the sum of
\* the entries' bus values and the 'total' component value is the sum of the
\* entries' component values, to the four significant digits shown.
C17_BusTotalsAreSums ==
    \A t \in BusTables :
        Numeric(t)
        => LET total == tables[t][Len(tables[t])]
           IN  /\ AgreeSig4(SumOver(Entries(t),
                               [j \in Entries(t) |-> tables[t][j].bus_value.n]),
                            total.bus_value.n)
               /\ AgreeSig4(SumOver(Entries(t),
                               [j \in Entries(t) |->
                                   tables[t][j].component_value.n]),
                            total.component_value.n)

\* the component a row of a bus table is about, by the label the component
\* was constructed with
CompOfLabel(name) ==
    CASE name = "steam turbine" -> "tu"
      [] name = "feed pump" -> "fp"
      [] name = "steam generator" -> "sg"
      [] name = "steam generator for reheating" -> "sgre"
      [] name = "steam turbine HP" -> "tuhp"
      [] name = "steam turbine LP" -> "tulp"
      [] name = "Heater" -> "heater"
      [] name = "Turbine" -> "turb"
      [] name = "Compressor 1" -> "cp1"
      [] name = "Compressor 2" -> "cp2"

\* the bus a bus table reports
BusOfTable(t) ==
    CASE t = "df_buses" -> "powergen_simple"
      [] t = "df_buses_heat_input" -> "heat_input"
      [] t = "df_buses_electric_output" -> "powergen_reheat"
      [] t = "results_heat_input" -> "heat_input_bus"
      [] t = "results_power" -> "power"

\* the add_comps entry of bus b for component c
BusEntry(b, c) == CHOOSE e \in bus[b].comps : e.comp = c

\* the bus value of a component value v under an add_comps entry e:
\* v * char for base 'component', v / char for base 'bus'
BusValue(v, e) ==
    LET g == Gcd(e.char_n, e.char_d)
        n == e.char_n \div g
        d == e.char_d \div g
    IN  IF e.base = "component" THEN (v * n) \div d ELSE (v * d) \div n

\* C18 (as stated): for each entry of a bus table the reported efficiency is
\* the 'char' factor given in add_comps, and the bus value is the component
\* value times the efficiency for base 'component' and the component value
\* divided by it for base 'bus', to the digits shown.
C18_BusEntriesFollowChar ==
    \A t \in BusTables :
        Numeric(t)
        => \A j \in Entries(t) :
              LET row == tables[t][j]
                  e == BusEntry(BusOfTable(t), CompOfLabel(row.name))
              IN  /\ row.efficiency = Frac(e.char_n, e.char_d)
                  /\ AgreeSig4(BusValue(row.component_value.n, e),
                               row.bus_value.n)

\* the port names of TESPy components
Outlets == {"out1", "out2"}
Inlets == {"in1", "in2"}

\* C19: within each network every connection runs from an outlet port of
\* one component to an inlet port of another component, and no (component,
\* port) pair is the endpoint of two connections of that network.
C19_PortsUsedOnce ==
    \A n \in Nets :
        /\ \A c \in net[n].conns :
              /\ conn[c].made
              /\ conn[c].source_id \in Outlets
              /\ conn[c].target_id \in Inlets
              /\ conn[c].source # conn[c].target
        /\ \A c, d \in net[n].conns :
              c # d
              => /\ <<conn[c].source, conn[c].source_id>>
                       # <<conn[d].source, conn[d].source_id>>
                 /\ <<conn[c].target, conn[c].target_id>>
                       # <<conn[d].target, conn[d].target_id>>

\* C19 witness: the thirteen connections of the sCO2 network, with both
\* ports of the recuperators, the splitter and the merge in use, are in the
\* network.
C19_Witness ==
    /\ net["jouleCycle"].conns = JouleConns
    /\ Cardinality({<<conn[c].source, conn[c].source_id>> : c \in JouleConns})
          = 13
    /\ \E c, d \in JouleConns : c # d /\ conn[c].source = conn[d].source

\* the working-fluid side of network n: its components other than the
\* cooling-water Source and Sink, and the connections between them
WorkingComps(n) ==
    {c \in NetComps(n, conn) : CompClass(c) \notin {"Source", "Sink"}}
WorkingConns(n) ==
    {c \in net[n].conns :
        {conn[c].source, conn[c].target} \subseteq WorkingComps(n)}

RECURSIVE Downstream(_, _)
\* the components reached from the set S by following working-fluid
\* connections of network n, S included
Downstream(n, S) ==
    LET T == S \cup {conn[c].target :
                        c \in {d \in WorkingConns(n) : conn[d].source \in S}}
    IN  IF T = S THEN S ELSE Downstream(n, T)

\* the components reached from the outlets of component x
ReachedFrom(n, x) ==
    Downstream(n, {conn[c].target :
                      c \in {d \in WorkingConns(n) : conn[d].source = x}})

\* the cycle closers of network n
Closers(n) == {c \in NetComps(n, conn) : CompClass(c) = "CycleCloser"}

\* C20: in each network the working-fluid connections form a closed cycle
\* through exactly one CycleCloser: every working-fluid component is reached
\* from the cycle closer's outlet and reaches the cycle closer's inlet.
C20_ClosedCycle ==
    \A n \in Nets :
        net[n].conns # {}
        => /\ Cardinality(Closers(n)) = 1
           /\ \A w \in WorkingComps(n) : \A x \in Closers(n) :
                 w \in ReachedFrom(n, x) /\ x \in ReachedFrom(n, w)

\* C20 witness: the reheat network is assembled and its reheater lies on the
\* cycle through the cycle closer.
C20_Witness ==
    /\ net["rankine"].conns = ReheatConns
    /\ "sgre" \in ReachedFrom("rankine", "cc")
    /\ "cc" \in ReachedFrom("rankine", "sgre")
    /\ Cardinality(WorkingComps("rankine")) = 7

\* the row of the sCO2 connection table for the connection object c
JouleRow(c) ==
    LET t == tables["results_connections"]
    IN  t[CHOOSE k \in 1..Len(t) : t[k].label = conn[c].label]

\* the mass flow the sCO2 table shows entering component x at port `port`,
\* and leaving it at port `port`; 0 for a port that is not connected
MassInto(x, port) ==
    SumOver({c \in JouleConns : conn[c].target = x /\ conn[c].target_id = port},
            [c \in Conns |-> IF c \in JouleConns THEN JouleRow(c).m ELSE 0])
MassOutOf(x, port) ==
    SumOver({c \in JouleConns : conn[c].source = x /\ conn[c].source_id = port},
            [c \in Conns |-> IF c \in JouleConns THEN JouleRow(c).m ELSE 0])

\* C21: in the recorded sCO2 results mass is conserved at every component:
\* each stream of a non-branching component (in1 -> out1, and in2 -> out2 of
\* the recuperators) shows the same mass flow at inlet and outlet, the
\* splitter's inlet (15) shows the sum of its outlets (6, 10) and the merge's
\* outlet (13) the sum of its inlets (11, 12), to the four digits shown.
C21_MassConserved ==
    tables["results_connections"] # <<>>
    => /\ \A x \in JouleComps :
             CompClass(x) \notin {"Splitter", "Merge", "Source", "Sink"}
             => /\ MassInto(x, "in1") = MassOutOf(x, "out1")
                /\ MassInto(x, "in2") = MassOutOf(x, "out2")
       /\ AgreeSig4(MassOutOf("sp1", "out1") + MassOutOf("sp1", "out2"),
                    MassInto("sp1", "in1"))
       /\ AgreeSig4(MassInto("m1", "in1") + MassInto("m1", "in2"),
                    MassOutOf("m1", "out1"))

\* C21 witness: the sCO2 results are there, the splitter's inlet 15 carrying
\* 54.00 kg/s and its outlets 6 and 10 carrying 45.40 and 8.597 kg/s
C21_Witness ==
    /\ pc = "done"
    /\ Len(tables["results_connections"]) = 13
    /\ MassInto("sp1", "in1") = 54000
    /\ MassOutOf("sp1", "out1") = 45400
    /\ MassOutOf("sp1", "out2") = 8597
    /\ MassInto("cp2", "in1") = MassOutOf("cp2", "out1")

\* one unit of the third significant digit of n: the component tables show
\* three digits (-7.70e+06)
Sig3Unit(n) == 10 * Sig4Scale(Abs(n))

\* the 'total' row of a bus table
TotalRow(t) == tables[t][Len(tables[t])]

\* C22: in the recorded sCO2 results energy is conserved over the closed
\* cycle: heater duty + cooler duty + turbine power + both compressor powers
\* is zero, and the power bus's total component value is minus (heater
\* duty + cooler duty), within one unit of the last digit shown for the
\* cooler duty.
C22_EnergyConserved ==
    tables["results_power"] # <<>>
    => LET Qh == comp["heater"].val.n
           Qc == comp["cooler"].val.n
           W == comp["turb"].val.n + comp["cp1"].val.n + comp["cp2"].val.n
       IN  /\ \A x \in {"heater", "cooler", "turb", "cp1", "cp2"} :
                 IsNum(comp[x].val)
           /\ Abs(Qh + Qc + W) <= Sig3Unit(Qc)
           /\ Abs(TotalRow("results_power").component_value.n + (Qh + Qc))
                 <= Sig3Unit(Qc)

\* C22 witness: the sCO2 results are there: heater 1.051e7 W, cooler
\* -7.70e6 W, power bus total component value -2.807e6 W
C22_Witness ==
    /\ pc = "done"
    /\ errors["j_solve"] = "none"
    /\ comp["heater"].val = Num(105100)
    /\ comp["cooler"].val = Num(-77000)
    /\ comp["turb"].val = Num(-62950)
    /\ TotalRow("results_power").component_value = Num(-28070)

\* C23: W_net is the magnitude of the signed power-bus total: after each of
\* cells 1.2, 2.2 and 2.3, which compute it, W_net = |powergen.P.val| when the
\* bus total is a number, of either sign; a W_net that is a number is never
\* negative; and every efficiency the sweep computes from a heat duty
\* Q_in > 0, like every power it stores, is a number that is not negative.
C23_MagnitudeNonNegative ==
    /\ \A c \in ReadCells :
          (pc = After(c) /\ IsNum(bus[ref["powergen"]].P))
          => scal["W_net"] = Num(Abs(bus[ref["powergen"]].P.n))
    /\ IsNum(scal["W_net"]) => scal["W_net"].n >= 0
    /\ \A key \in DOMAIN eta :
          /\ \A j \in 1..Len(eta[key]) :
                SweepSolves(key)[j].Qsg > 0
                => IsNum(eta[key][j]) /\ eta[key][j].n >= 0
          /\ \A j \in 1..Len(power[key]) :
                IsNum(power[key][j]) /\ power[key][j].n >= 0

\* C23 witness: a plant that consumes power (the bus total is positive) has
\* had its W_net computed in cell 2.2 and a sweep point computed from a
\* positive heat duty.
C23_Witness ==
    /\ pc = "sweep_T_livesteam"
    /\ Len(eta["T_livesteam"]) > 0
    /\ SweepSolves("T_livesteam")[1].P > 0
    /\ SweepSolves("T_livesteam")[1].Qsg > 0
    /\ eta["T_livesteam"][1].n > 0
    /\ IsNum(scal["W_net"]) /\ scal["W_net"].n > 0

\* the sweep cell has finished its resets: the three loops ran through and
\* c1.set_attr(p=p_tu_in) was executed
SweepResetsDone ==
    \/ pc = "sweep_plot"
    \/ pc = "done" /\ errors["sweep"] = "NameError"

\* C24: when the sweep cell has finished its resets, the last solve() is the
\* one of the last live-steam pressure (200 bar): none follows the reset of
\* c1.p to p_tu_in, the stored powergen.P.val and sg.Q.val are that solve's,
\* and c1.p in force (p_tu_in) is not the one that solve was made for.
C24_StaleResultsAfterSweep ==
    SweepResetsDone
    => LET r == solves[Len(solves)]
       IN  /\ r.step = "sweep_p_livesteam"
           /\ r.ok
           /\ r.conn[ref["c1"]].p = DC(200 * ConnScale)
           /\ bus[ref["powergen"]].P = Num(r.P)
           /\ comp["sg"].val = Num(r.Qsg)
           /\ conn[ref["c1"]].p = DC(scal["p_tu_in"].n)
           /\ conn[ref["c1"]].p # r.conn[ref["c1"]].p
           /\ ~FreshlySolved("rankine")

\* C24 witness: the sweep cell is past its last reset, after 21 solves.
C24_Witness ==
    /\ pc = "sweep_plot"
    /\ Len(SweepSolves("p_livesteam")) = NPoints
    /\ solves[Len(solves)].conn[ref["c1"]].p.val = 200 * ConnScale
    /\ conn[ref["c1"]].p.val = scal["p_tu_in"].n

\* the three loops of the sweep cell have run through
SweepLoopsDone ==
    \/ pc \in {"sweep_reset_p", "sweep_plot"}
    \/ pc = "done" /\ errors["sweep"] = "NameError"

\* the boundary condition the loop over data[key] sets from its loop
\* variable, as the solve() recorded in r found it
SweptValue(key, r) ==
    CASE key = "T_livesteam" -> r.conn[ref["c1"]].T
      [] key = "T_cooling" -> r.conn[ref["c11"]].T
      [] key = "p_livesteam" -> r.conn[ref["c1"]].p

\* the first and the last value of data[key], in 1/ConnScale
DataEnds(key) ==
    CASE key = "T_livesteam" -> <<330 * ConnScale, 450 * ConnScale>>
      [] key = "T_cooling" -> <<20 * ConnScale, 45 * ConnScale>>
      [] key = "p_livesteam" -> <<75 * ConnScale, 200 * ConnScale>>

\* C25: the sweep makes exactly 21 solve() calls, 7 per swept parameter, and
\* when its loops are through eta[k] and power[k] have the length 7 of
\* data[k] for each key k; the j-th eta and power entries are computed from
\* the solve() made for the j-th value of data[k], which runs from the first
\* to the last value of its linspace.
C25_SweepCounts ==
    /\ \A key \in DOMAIN eta : \A j \in 1..Len(eta[key]) :
          LET r == SweepSolves(key)[j]
          IN  /\ SweptValue(key, r) = DC(Data(key, j))
              /\ eta[key][j] = EtaEntry(Num(r.P), Num(r.Qsg), world.numeric).v
              /\ j <= Len(power[key])
                    => power[key][j] = PowerEntry(Num(r.P), world.numeric).v
    /\ SweepLoopsDone
       => /\ Len(SelectSeq(solves, LAMBDA r : r.step \in SweepLoopSteps)) = 21
          /\ \A key \in DOMAIN eta :
                /\ Len(SweepSolves(key)) = NPoints
                /\ Len(eta[key]) = NPoints
                /\ Len(power[key]) = NPoints
                /\ SweptValue(key, SweepSolves(key)[1]).val = DataEnds(key)[1]
                /\ SweptValue(key, SweepSolves(key)[NPoints]).val
                      = DataEnds(key)[2]

\* C25 witness: the three loops are through, each with its seven entries.
C25_Witness ==
    /\ pc = "sweep_reset_p"
    /\ Len(SweepSolves("p_livesteam")) = 7
    /\ \A key \in DOMAIN eta : Len(eta[key]) = 7 /\ Len(power[key]) = 7
    /\ eta["T_cooling"][7]
          = EtaEntry(Num(SweepSolves("T_cooling")[7].P),
                     Num(SweepSolves("T_cooling")[7].Qsg), world.numeric).v

\* C26: every solve() of the live-steam temperature loop finds the reheat
\* temperature one degree below the live-steam temperature (c3.T = c1.T - 1),
\* and every solve() of the cooling loop finds the cooling-water outlet ten
\* degrees above its inlet (c12.T = c11.T + 10), both specified.
C26_SweepOffsets ==
    \A j \in 1..Len(solves) :
        LET r == solves[j]
        IN  /\ r.step = "sweep_T_livesteam"
               => /\ r.conn[ref["c1"]].T.is_set /\ r.conn[ref["c3"]].T.is_set
                  /\ r.conn[ref["c3"]].T.val
                        = r.conn[ref["c1"]].T.val - 1 * ConnScale
            /\ r.step = "sweep_T_cooling"
               => /\ r.conn[ref["c11"]].T.is_set /\ r.conn[ref["c12"]].T.is_set
                  /\ r.conn[ref["c12"]].T.val
                        = r.conn[ref["c11"]].T.val + 10 * ConnScale

\* C26 witness: both loops have run through; the last live-steam solve found
\* c1.T = 450 C and c3.T = 449 C, the last cooling solve c11.T = 45 C and
\* c12.T = 55 C.
C26_Witness ==
    /\ Len(SweepSolves("T_livesteam")) = NPoints
    /\ Len(SweepSolves("T_cooling")) = NPoints
    /\ SweepSolves("T_livesteam")[NPoints].conn[ref["c3"]].T
          = DC(449 * ConnScale)
    /\ SweepSolves("T_cooling")[NPoints].conn[ref["c12"]].T
          = DC(55 * ConnScale)
    /\ SweepSolves("T_cooling")[NPoints].conn[ref["c11"]].T
          = DC(45 * ConnScale)

\* C27 (as stated): when the cells of the Rankine notebook are run in order,
\* no cell fails with an unbound name: every name a code cell reads was bound
\* by an import or an assignment of that cell or an earlier one, the
\* plotting block of the sweep cell included.
C27_NoUnboundName ==
    \A c \in CellNames : errors[c] # "NameError"

====
